---- MODULE Spec2Model ----
(***************************************************************************)
(* vite-node-api: the request lifecycle of the dev middleware              *)
(* (src/index.js, handler) and of the production runtime                   *)
(* (src/runtime/entry.mjs, the http.createServer callback).                *)
(*                                                                         *)
(* Strings are sequences of character tokens: a token stands for one or    *)
(* more characters that no string operation of the code ever splits        *)
(* ("api", "%2F", "js"); the separators "/" and ".", the brackets and the  *)
(* percent escapes are tokens of their own, so that startsWith, split,     *)
(* replace and the regular-expression match work on them as the code's     *)
(* do on characters.                                                       *)
(*                                                                         *)
(* The response object follows node:http (ServerResponse): statusCode is   *)
(* a plain property, setHeader and writeHead throw ERR_HTTP_HEADERS_SENT   *)
(* once the headers are sent; writeHead and end() send the headers.        *)
(* Handlers use the documented surface statusCode / setHeader / end.       *)
(***************************************************************************)
EXTENDS Integers, Sequences, FiniteSets, TLC

\* ------------------------------------------------------------------ bounds
\* number of path segments after the first one in a generated request URL
MaxSegs == 2
\* number of chunks a request body is delivered in
MaxChunks == 2
\* number of "&"-separated items of a generated query string
MaxPairs == 3
\* number of milliseconds Date.now() advances while requests are served
MaxClock == 2
\* number of times the handler file is saved while requests are served
MaxEdits == 2

\* -------------------------------------------------------------------- state
VARIABLES
  engine,      \* "dev": index.js handler; "prod": entry.mjs server callback
  options,     \* the plugin options: [bodyLimit, cors]
  req,         \* per request: [method, url, chunks, hb], hb the handler module
  ctx,         \* per request: the position and the locals of the callback
  res,         \* per request: the ServerResponse
  routeCache,  \* entry.mjs:43, [set, routes]
  probed,      \* the paths fs.existsSync was asked about
  moduleCache, \* the ESM loader's cache: [url, version] of the modules loaded
  disk,        \* [client: clientDir is there, edits: edits of the handler file]
  clock,       \* Date.now()
  env,         \* process.env
  build,       \* closeBundle and buildBackend: position, inputs and effects
  server       \* entry.mjs:89,189-201: the listener, the connections, the exit

vars == <<engine, options, req, ctx, res, routeCache, probed,
          moduleCache, disk, clock, env, build, server>>

\* what no step of a request changes
world == <<disk, clock, env, build, server>>

\* ------------------------------------------------- strings (token sequences)
StartsWith(s, p) == Len(p) <= Len(s) /\ SubSeq(s, 1, Len(p)) = p

Includes(s, tok) == \E i \in 1..Len(s) : s[i] = tok

RECURSIVE Split(_, _)
Split(s, sep) ==
  IF \A i \in 1..Len(s) : s[i] # sep THEN <<s>>
  ELSE LET i == CHOOSE k \in 1..Len(s) :
                   s[k] = sep /\ \A j \in 1..(k - 1) : s[j] # sep
       IN  <<SubSeq(s, 1, i - 1)>> \o Split(SubSeq(s, i + 1, Len(s)), sep)

RECURSIVE Join(_)
Join(segs) ==
  IF Len(segs) = 0 THEN <<>>
  ELSE IF Len(segs) = 1 THEN segs[1]
  ELSE segs[1] \o <<"/">> \o Join(Tail(segs))

RECURSIVE Concat(_)
Concat(ss) == IF Len(ss) = 0 THEN <<>> ELSE ss[1] \o Concat(Tail(ss))

DropLast(s) == IF Len(s) = 0 THEN s ELSE SubSeq(s, 1, Len(s) - 1)

\* ------------------------------------------------------------ new URL(...)
\* WHATWG URL path state: "." and ".." segments, also written with %2E,
\* are resolved by the parser; %2F is not a separator for it.
IsSingleDot(seg) == seg \in {<<".">>, <<"%2E">>}

IsDoubleDot(seg) ==
  seg \in {<<".", ".">>, <<".", "%2E">>, <<"%2E", ".">>, <<"%2E", "%2E">>}

RECURSIVE UrlSegs(_, _)
UrlSegs(segs, acc) ==
  IF Len(segs) = 0 THEN acc
  ELSE LET s    == Head(segs)
           last == Len(segs) = 1
           tl   == IF last THEN << <<>> >> ELSE <<>>
       IN  IF IsDoubleDot(s) THEN UrlSegs(Tail(segs), DropLast(acc) \o tl)
           ELSE IF IsSingleDot(s) THEN UrlSegs(Tail(segs), acc \o tl)
           ELSE UrlSegs(Tail(segs), acc \o <<s>>)

\* the part of req.url before the first "?" and the part after it
BeforeQuery(raw) == Split(raw, "?")[1]

UrlQuery(raw) ==
  IF Includes(raw, "?")
  THEN SubSeq(raw, Len(BeforeQuery(raw)) + 2, Len(raw))
  ELSE <<>>

\* fullUrl.pathname of new URL(req.url, "http://host") for req.url = raw
UrlPathname(raw) ==
  <<"/">> \o Join(UrlSegs(Tail(Split(BeforeQuery(raw), "/")), <<>>))

\* ------------------------------------------------- fullUrl.searchParams
\* the application/x-www-form-urlencoded parser: "+" and %20 are a space
FormDecodeChar(c) == IF c \in {"+", "%20"} THEN " " ELSE c

FormDecode(s) == [i \in 1..Len(s) |-> FormDecodeChar(s[i])]

\* one item "name=value": split at the first "=", no "=" gives value ""
EntryOf(item) ==
  [k |-> FormDecode(Split(item, "=")[1]),
   v |-> IF Includes(item, "=")
         THEN FormDecode(SubSeq(item, Len(Split(item, "=")[1]) + 2, Len(item)))
         ELSE <<>>]

NonEmpty(item) == Len(item) > 0

\* searchParams.entries(): the non-empty items between "&", in order
SearchEntries(query) ==
  LET items == SelectSeq(Split(query, "&"), NonEmpty)
  IN  [i \in 1..Len(items) |-> EntryOf(items[i])]

NoQuery == <<>>

\* an assignment that keeps the value a key already has
RECURSIVE FromEntriesKeepFirst(_, _)
FromEntriesKeepFirst(entries, obj) ==
  IF Len(entries) = 0 THEN obj
  ELSE FromEntriesKeepFirst(Tail(entries),
                            [k \in DOMAIN obj \cup {Head(entries).k} |->
                               IF k \in DOMAIN obj THEN obj[k]
                               ELSE Head(entries).v])

\* Object.fromEntries: the entries are assigned in order, obj[k] = v
RECURSIVE FromEntries(_, _)
FromEntries(entries, obj) ==
  IF Len(entries) = 0 THEN obj
  ELSE FromEntries(Tail(entries),
                   [k \in DOMAIN obj \cup {Head(entries).k} |->
                      IF k = Head(entries).k THEN Head(entries).v ELSE obj[k]])

\* Object.fromEntries(fullUrl.searchParams.entries())
ParseQuery(raw) == FromEntries(SearchEntries(UrlQuery(raw)), NoQuery)

\* ------------------------------------------------------ decodeURIComponent
DecodeChar(c) == IF c = "%2F" THEN "/" ELSE IF c = "%2E" THEN "." ELSE c

\* a "%" that starts no escape makes decodeURIComponent throw URIError
Malformed(s) == Includes(s, "%")

DecodeURIComponent(s) == [i \in 1..Len(s) |-> DecodeChar(s[i])]

\* pathname.replace(/^\/api/, "")
StripApi(pathname) ==
  IF StartsWith(pathname, <<"/", "api">>)
  THEN SubSeq(pathname, 3, Len(pathname))
  ELSE pathname

\* ------------------------------------------------------------- node:path
RECURSIVE NormSegs(_, _)
NormSegs(segs, acc) ==
  IF Len(segs) = 0 THEN acc
  ELSE LET s == Head(segs)
       IN  IF Len(s) = 0 \/ s = <<".">> THEN NormSegs(Tail(segs), acc)
           ELSE IF s = <<".", ".">> THEN NormSegs(Tail(segs), DropLast(acc))
           ELSE NormSegs(Tail(segs), acc \o <<s>>)

\* path.normalize of an absolute path
PathNormalize(p) == <<"/">> \o Join(NormSegs(Split(p, "/"), <<>>))

\* path.resolve(base, rel) for an absolute base
PathResolve(base, rel) ==
  IF Len(rel) > 0 /\ rel[1] = "/" THEN PathNormalize(rel)
  ELSE PathNormalize(base \o <<"/">> \o rel)

\* path.join(base, rel)
PathJoin(base, rel) == PathNormalize(base \o <<"/">> \o rel)

\* ------------------------------------------------------------ file system
\* index.js:44 (path.resolve(options.apiDir)); entry.mjs:36-37 with
\* __dirname = /s: apiDir = /s/api and clientDir = /client
apiDir == <<"/", "s", "/", "api">>

clientDir == <<"/", "client">>

HFile == apiDir \o <<"/", "h", ".", "js">>

UserIdFile == apiDir \o <<"/", "users", "/", "[", "id", "]", ".", "js">>

\* a second dynamic route in the same directory
UserSlugFile == apiDir \o <<"/", "users", "/", "[", "slug", "]", ".", "js">>

\* a handler-shaped file in a sibling directory whose name begins with "api"
EvilFile == <<"/", "s", "/", "api", "-evil", "/", "h", ".", "js">>

IndexHtml == clientDir \o <<"/", "index", ".", "html">>

AssetFile == clientDir \o <<"/", "h">>

EvilAsset == <<"/", "client", "-evil", "/", "h">>

\* a directory of the client bundle
AssetsDir == clientDir \o <<"/", "assets">>

Files ==
  {HFile, UserIdFile, UserSlugFile, EvilFile, EvilAsset}
    \cup (IF disk.client THEN {IndexHtml, AssetFile} ELSE {})

Dirs ==
  {apiDir, apiDir \o <<"/", "users">>}
    \cup (IF disk.client THEN {clientDir, AssetsDir} ELSE {})

\* fs.existsSync
ExistsSync(p) == p \in Files \/ p \in Dirs

\* fg("**/*.js", {cwd: apiDir, absolute: true})
GlobApi == <<HFile, UserIdFile, UserSlugFile>>

\* ------------------------------------------------------------ route table
GroupTok == "([^/]+)"

\* the first "]" that closes a bracket opened at s[1], 0 when /\[([^\]]+)\]/
\* does not match at position 1
CloseAt(s) ==
  IF Len(s) >= 3 /\ s[1] = "["
     /\ \E k \in 3..Len(s) : s[k] = "]" /\ \A j \in 2..(k - 1) : s[j] # "]"
  THEN CHOOSE k \in 3..Len(s) : s[k] = "]" /\ \A j \in 2..(k - 1) : s[j] # "]"
  ELSE 0

\* rel.replace(/\[([^\]]+)\]/g, "([^/]+)")
RECURSIVE ReplaceBrackets(_)
ReplaceBrackets(s) ==
  IF Len(s) = 0 THEN <<>>
  ELSE IF CloseAt(s) > 0
       THEN <<GroupTok>> \o ReplaceBrackets(SubSeq(s, CloseAt(s) + 1, Len(s)))
       ELSE <<s[1]>> \o ReplaceBrackets(Tail(s))

\* [...rel.matchAll(/\[([^\]]+)\]/g)].map((m) => m[1])
RECURSIVE BracketNames(_)
BracketNames(s) ==
  IF Len(s) = 0 THEN <<>>
  ELSE IF CloseAt(s) > 0
       THEN <<SubSeq(s, 2, CloseAt(s) - 1)>>
              \o BracketNames(SubSeq(s, CloseAt(s) + 1, Len(s)))
       ELSE BracketNames(Tail(s))

\* pattern.replace(/\.js$/, "")
StripJs(p) ==
  IF Len(p) >= 2 /\ SubSeq(p, Len(p) - 1, Len(p)) = <<".", "js">>
  THEN SubSeq(p, 1, Len(p) - 2)
  ELSE p

\* path.relative(apiDir, f) for a file below apiDir
Relative(f) == SubSeq(f, Len(apiDir) + 2, Len(f))

\* one entry of routeCache; regex is the source between "^" and "$"
RouteOf(f) ==
  [file  |-> f,
   regex |-> StripJs(ReplaceBrackets(Relative(f))),
   names |-> BracketNames(Relative(f))]

BuildRoutes(files) == [i \in 1..Len(files) |-> RouteOf(files[i])]

\* s.match(new RegExp("^" + pat + "$")): groups are greedy, "." matches any
\* one character, every other token matches itself
RECURSIVE RegexExec(_, _)
RegexExec(pat, s) ==
  IF Len(pat) = 0 THEN [ok |-> Len(s) = 0, caps |-> <<>>]
  ELSE IF pat[1] = GroupTok
       THEN LET ns == {n \in 1..Len(s) :
                         /\ \A j \in 1..n : s[j] # "/"
                         /\ RegexExec(Tail(pat), SubSeq(s, n + 1, Len(s))).ok}
            IN  IF ns = {} THEN [ok |-> FALSE, caps |-> <<>>]
                ELSE LET n == CHOOSE m \in ns : \A k \in ns : k <= m
                     IN  [ok   |-> TRUE,
                          caps |-> <<SubSeq(s, 1, n)>>
                                   \o RegexExec(Tail(pat),
                                                SubSeq(s, n + 1, Len(s))).caps]
       ELSE IF Len(s) > 0 /\ (pat[1] = "." \/ pat[1] = s[1])
            THEN RegexExec(Tail(pat), Tail(s))
            ELSE [ok |-> FALSE, caps |-> <<>>]

\* route.names.forEach((n, i) => (params[n] = match[i + 1]))
BindParams(names, caps) ==
  [n \in {names[i] : i \in 1..Len(names)} |->
     caps[CHOOSE i \in 1..Len(names) :
            names[i] = n /\ \A j \in (i + 1)..Len(names) : names[j] # n]]

NoParams == <<>>

\* for (const route of routes) { const match = apiPath.match(route.regex) ...
\* index of the first entry that matches, 0 when none does
FirstMatch(routes, apiPath) ==
  IF \E i \in 1..Len(routes) : RegexExec(routes[i].regex, apiPath).ok
  THEN CHOOSE i \in 1..Len(routes) :
         /\ RegexExec(routes[i].regex, apiPath).ok
         /\ \A j \in 1..(i - 1) : ~RegexExec(routes[j].regex, apiPath).ok
  ELSE 0

\* ------------------------------------------------------------------- JSON
\* bytes of a token: "PAD1M" is a run of one million spaces
ByteLen(tok) ==
  CASE tok = "PAD1M" -> 1000000
    [] tok = "\"a\":1" -> 5
    [] OTHER -> 1

RECURSIVE ByteLength(_)
ByteLength(s) == IF Len(s) = 0 THEN 0 ELSE ByteLen(s[1]) + ByteLength(Tail(s))

IsSpace(tok) == tok \in {" ", "PAD1M"}

NotSpace(tok) == ~IsSpace(tok)

\* the JSON text of the object {body: j}
WrapBody(j) == <<"{", "\"body\":">> \o j \o <<"}">>

JsonAtoms == {<<"{", "}">>, <<"{", "\"a\":1", "}">>, <<"1">>, <<"null">>}

ValidJson == JsonAtoms \cup {WrapBody(j) : j \in JsonAtoms}

\* JSON.parse: white space is skipped, anything but a JSON text is an error
JsonParse(text) ==
  [err   |-> SelectSeq(text, NotSpace) \notin ValidJson,
   value |-> [json |-> SelectSeq(text, NotSpace)]]

EmptyObject == [json |-> <<"{", "}">>]

\* a name process.env does not have
Unset == "unset"

Undefined == [json |-> <<"undefined">>]

Null == [json |-> <<"null">>]

\* JSON.stringify(result ?? {}) and genericStringify(result ?? {})
Stringify(v) == IF v \in {Undefined, Null} THEN EmptyObject.json ELSE v.json

\* ----------------------------------------------------------------- messages
MsgTimeout == <<"Request timeout">>

MsgForbidden == <<"Forbidden path">>

MsgNotFound == <<"API route not found">>

MsgTooLarge == <<"Request body ", "too large">>

MsgInvalidJson == <<"Invalid JSON body">>

\* SyntaxError of JSON.parse, URIError of decodeURIComponent, TypeError of
\* calling a module namespace object, ERR_HTTP_HEADERS_SENT
MsgSyntax == <<"Unexpected token">>

MsgUri == <<"URI malformed">>

MsgNotFunction == <<"fn is not a function">>

\* the TypeError of reading err.message when err is null
MsgNullMessage == <<"Cannot read properties of null (reading 'message')">>

MsgHeadersSent == <<"Cannot write headers after they are sent to the client">>

\* errorStringify({error: msg}) and JSON.stringify({error: msg})
ErrorJson(msg) == <<"{\"error\":\"">> \o msg \o <<"\"}">>

Json == "application/json"

\* ----------------------------------------------------------- ServerResponse
NewResponse ==
  [statusCode    |-> 200,
   ctype         |-> "none",
   cors          |-> "none",
   corsMethods   |-> "none",
   corsHeaders   |-> "none",
   body          |-> <<>>,
   headersSent   |-> FALSE,
   writableEnded |-> FALSE,
   ends          |-> 0,
   sentStatus    |-> 0]

\* res.writeHead(code, {"Content-Type": ctype}) while no headers are sent
WriteHead(rs, code, ctype) ==
  [rs EXCEPT !.statusCode = code, !.ctype = ctype, !.headersSent = TRUE,
             !.sentStatus = code]

\* res.end(body): sends the headers with the status set at that time; a
\* later end() sends nothing
End(rs, body) ==
  IF rs.writableEnded THEN rs
  ELSE [rs EXCEPT !.body = body, !.writableEnded = TRUE,
                  !.headersSent = TRUE, !.ends = rs.ends + 1,
                  !.sentStatus = IF rs.headersSent THEN rs.sentStatus
                                 ELSE rs.statusCode]

\* res.write(chunk): sends the headers with the status set at that time and
\* leaves the response open
Write(rs, chunk) ==
  IF rs.writableEnded THEN rs
  ELSE [rs EXCEPT !.body = rs.body \o chunk, !.headersSent = TRUE,
                  !.sentStatus = IF rs.headersSent THEN rs.sentStatus
                                 ELSE rs.statusCode]

\* res.statusCode = code; res.setHeader("Content-Type", ...); res.end(body)
\* setHeader throws once the headers are sent, the assignment does not
DevSend(rs, code, body) ==
  IF rs.headersSent
  THEN [res |-> [rs EXCEPT !.statusCode = code], threw |-> TRUE]
  ELSE [res   |-> End([rs EXCEPT !.statusCode = code, !.ctype = Json], body),
        threw |-> FALSE]

\* res.writeHead(code, {"Content-Type": ctype}); res.end(body)
\* writeHead throws once the headers are sent
ProdSend(rs, code, ctype, body) ==
  IF rs.headersSent
  THEN [res |-> rs, threw |-> TRUE]
  ELSE [res |-> End(WriteHead(rs, code, ctype), body), threw |-> FALSE]

Mutating == {"POST", "PUT", "PATCH"}

\* index.js:46, options.bodyLimit || 1_000_000
DefaultBodyLimit == 1000000

\* the limit the body loop compares with: index.js:46,122 and the default
\* parameter of parseBody, entry.mjs:76,133 (parseBody(req) passes none)
BodyLimit(e, o) ==
  IF e = "dev"
  THEN (IF o.bodyLimit = 0 THEN DefaultBodyLimit ELSE o.bodyLimit)
  ELSE DefaultBodyLimit

\* corsOpt.origin || "*"
CorsOrigin(o) == IF o.cors \in {"on", "{}"} THEN "*" ELSE o.cors

AllowMethods == "GET,POST,PUT,PATCH,DELETE,OPTIONS"

AllowHeaders == "Content-Type"

\* index.js:75-80, the three setHeader calls
SetCorsHeaders(rs, o) ==
  [rs EXCEPT !.cors = CorsOrigin(o), !.corsMethods = AllowMethods,
             !.corsHeaders = AllowHeaders]

NewContext ==
  [pc       |-> "start",
   timer    |-> "off",
   rest     |-> <<>>,
   total    |-> 0,
   buf      |-> <<>>,
   hasBody  |-> FALSE,
   body     |-> Undefined,
   apiPath  |-> <<>>,
   file     |-> <<>>,
   params   |-> NoParams,
   next     |-> 0,
   escaped  |-> FALSE,
   uncaught |-> FALSE,
   loaded   |-> {},
   ran      |-> -1,
   onDisk   |-> -1,
   invoked  |-> 0,
   stages   |-> <<>>,
   table    |-> <<>>,
   firedAt  |-> "never",
   seen     |-> [hasParams |-> FALSE, params |-> NoParams,
                 hasBody |-> FALSE, body |-> Undefined,
                 hasQuery |-> FALSE, query |-> NoQuery]]

\* ------------------------------------------------------- the timeout callback
\* the callback without its test of writableEnded
TimeoutCallbackUnchecked(e, rs) ==
  IF e = "dev" THEN DevSend(rs, 408, ErrorJson(MsgTimeout))
  ELSE ProdSend(rs, 408, Json, ErrorJson(MsgTimeout))

\* the callback setting the status and ending, without the content type
TimeoutCallbackNoHeader(e, rs) ==
  IF ~rs.writableEnded
  THEN [res   |-> End([rs EXCEPT !.statusCode = 408], ErrorJson(MsgTimeout)),
        threw |-> FALSE]
  ELSE [res |-> rs, threw |-> FALSE]

\* index.js:88-94 and entry.mjs:91-96; threw: the callback itself throws,
\* which nothing catches
TimeoutCallback(e, rs) ==
  IF ~rs.writableEnded
  THEN (IF e = "dev" THEN DevSend(rs, 408, ErrorJson(MsgTimeout))
        ELSE ProdSend(rs, 408, Json, ErrorJson(MsgTimeout)))
  ELSE [res |-> rs, threw |-> FALSE]

\* ------------------------------------------------------------ error mapping
\* index.js:162-168
DevCatch(rs, msg) ==
  IF ~rs.writableEnded
  THEN [res |-> DevSend(rs, 500, ErrorJson(msg)).res, escaped |-> FALSE]
  ELSE [res |-> rs, escaped |-> FALSE]

\* entry.mjs:183-186: what the outer catch writes throws again once the
\* response has ended, and then the callback's promise rejects
ProdOuterCatch(rs, msg) ==
  [res     |-> ProdSend(rs, 500, Json, ErrorJson(msg)).res,
   escaped |-> ProdSend(rs, 500, Json, ErrorJson(msg)).threw]

\* err.message.includes("too large") ? 413 : 500
ProdStatusOf(msg) == IF Includes(msg, "too large") THEN 413 ELSE 500

\* entry.mjs:148-153, falling into 183-186 when writeHead throws
ProdCatch(rs, msg) ==
  IF ProdSend(rs, ProdStatusOf(msg), Json, ErrorJson(msg)).threw
  THEN ProdOuterCatch(rs, MsgHeadersSent)
  ELSE [res     |-> ProdSend(rs, ProdStatusOf(msg), Json, ErrorJson(msg)).res,
        escaped |-> FALSE]

Catch(e, rs, msg) == IF e = "dev" THEN DevCatch(rs, msg) ELSE ProdCatch(rs, msg)

\* the catch blocks when what was thrown is null: reading err.message throws
\* a TypeError. index.js:164-166 has set the status and the header by then
\* and nothing catches; entry.mjs:149 throws into the catch of 183-186
CatchNonError(e, rs) ==
  IF e = "dev"
  THEN (IF ~rs.writableEnded
        THEN [res     |-> [rs EXCEPT !.statusCode = 500,
                                     !.ctype = IF rs.headersSent THEN rs.ctype
                                               ELSE Json],
              escaped |-> TRUE]
        ELSE [res |-> rs, escaped |-> FALSE])
  ELSE ProdOuterCatch(rs, MsgNullMessage)

\* index.js:103-105, 110-112: before the try, nothing catches
\* entry.mjs:120-121, 126-127: inside the outer try
Reject(e, rs, code, msg) ==
  IF e = "dev"
  THEN [res     |-> DevSend(rs, code, ErrorJson(msg)).res,
        escaped |-> DevSend(rs, code, ErrorJson(msg)).threw]
  ELSE IF ProdSend(rs, code, Json, ErrorJson(msg)).threw
       THEN ProdOuterCatch(rs, MsgHeadersSent)
       ELSE [res     |-> ProdSend(rs, code, Json, ErrorJson(msg)).res,
             escaped |-> FALSE]

\* index.js:123-125 and 135-137: inside the try, so that a throw of
\* setHeader is caught by index.js:162
DevBodyReject(rs, code, msg) ==
  IF DevSend(rs, code, ErrorJson(msg)).threw
  THEN DevCatch(DevSend(rs, code, ErrorJson(msg)).res, MsgHeadersSent)
  ELSE [res |-> DevSend(rs, code, ErrorJson(msg)).res, escaped |-> FALSE]

\* ---------------------------------------------------------------- finalizer
\* index.js:152-161
DevFinalize(rs, result) ==
  IF ~rs.writableEnded
  THEN End([rs EXCEPT !.ctype = Json], Stringify(result))
  ELSE rs

\* entry.mjs:144-147
ProdFinalize(rs, result) ==
  IF ~rs.writableEnded
  THEN ProdSend(rs, 200, Json, Stringify(result)).res
  ELSE rs

Finalize(e, rs, result) ==
  IF e = "dev" THEN DevFinalize(rs, result) ELSE ProdFinalize(rs, result)

\* ------------------------------------------------- resolution and the guard
\* safePath.startsWith(apiDir), index.js:102 and entry.mjs:119,169
Contained(p, root) == StartsWith(p, root)

\* path.resolve(apiDir, "." + apiPath + ".js"), index.js:99, entry.mjs:103
CandidateFile(apiPath) == PathResolve(apiDir, <<".">> \o apiPath \o <<".", "js">>)

\* entry.mjs:108-115
Resolve(routes, apiPath, filePath) ==
  IF FirstMatch(routes, apiPath) = 0
  THEN [file |-> filePath, params |-> NoParams]
  ELSE [file   |-> routes[FirstMatch(routes, apiPath)].file,
        params |-> BindParams(routes[FirstMatch(routes, apiPath)].names,
                              RegexExec(routes[FirstMatch(routes, apiPath)].regex,
                                        apiPath).caps)]

Finished(c, out) == [c EXCEPT !.pc = "done", !.escaped = out.escaped]

\* the guard without the existence check that follows it
GuardNoExists(e, q, c, rs, pr, filePath, params) ==
  LET safePath == PathNormalize(filePath)
  IN  IF ~Contained(safePath, apiDir)
      THEN [ctx    |-> Finished(c, Reject(e, rs, 403, MsgForbidden)),
            res    |-> Reject(e, rs, 403, MsgForbidden).res,
            probed |-> pr]
      ELSE [ctx    |-> [c EXCEPT !.file = safePath, !.params = params,
                                 !.rest = q.chunks,
                                 !.stages = c.stages \o <<"guard">>,
                                 !.pc = IF q.method \in Mutating
                                        THEN "body" ELSE "import"],
            res    |-> rs,
            probed |-> pr]

\* the guard entering the body loop whatever the method
GuardReadsEveryBody(e, q, c, rs, pr, filePath, params) ==
  LET safePath == PathNormalize(filePath)
  IN  IF ~Contained(safePath, apiDir)
      THEN [ctx    |-> Finished(c, Reject(e, rs, 403, MsgForbidden)),
            res    |-> Reject(e, rs, 403, MsgForbidden).res,
            probed |-> pr]
      ELSE IF ~ExistsSync(safePath)
      THEN [ctx    |-> [Finished(c, Reject(e, rs, 404, MsgNotFound))
                          EXCEPT !.stages = c.stages \o <<"guard">>],
            res    |-> Reject(e, rs, 404, MsgNotFound).res,
            probed |-> pr \cup {safePath}]
      ELSE [ctx    |-> [c EXCEPT !.file = safePath, !.params = params,
                                 !.rest = q.chunks,
                                 !.stages = c.stages \o <<"guard", "exists">>,
                                 !.pc = "body"],
            res    |-> rs,
            probed |-> pr \cup {safePath}]

\* index.js:101-116 and entry.mjs:118-132: the guard, the existence check
\* and the entry into the body loop or the import
Guard(e, q, c, rs, pr, filePath, params) ==
  LET safePath == PathNormalize(filePath)
  IN  IF ~Contained(safePath, apiDir)
      THEN [ctx    |-> Finished(c, Reject(e, rs, 403, MsgForbidden)),
            res    |-> Reject(e, rs, 403, MsgForbidden).res,
            probed |-> pr]
      ELSE IF ~ExistsSync(safePath)
      THEN [ctx    |-> [Finished(c, Reject(e, rs, 404, MsgNotFound))
                          EXCEPT !.stages = c.stages \o <<"guard">>],
            res    |-> Reject(e, rs, 404, MsgNotFound).res,
            probed |-> pr \cup {safePath}]
      ELSE [ctx    |-> [c EXCEPT !.file = safePath, !.params = params,
                                 !.rest = q.chunks,
                                 !.stages = c.stages \o <<"guard", "exists">>,
                                 !.pc = IF q.method \in Mutating
                                        THEN "body" ELSE "import"],
            res    |-> rs,
            probed |-> pr \cup {safePath}]

\* ------------------------------------------------------------ dev middleware
\* index.js:69-116, up to the first await
DevStart(q, c, rs, o, pr) ==
  IF ~StartsWith(q.url, <<"/", "api">>)
  THEN [ctx |-> [c EXCEPT !.pc = "done", !.next = c.next + 1],
        res |-> rs, probed |-> pr]
  ELSE
  LET rs1 == IF o.cors # "off" THEN SetCorsHeaders(rs, o) ELSE rs
      st1 == IF o.cors # "off" THEN c.stages \o <<"cors">> ELSE c.stages
      armed == [c EXCEPT !.timer = "armed", !.stages = st1 \o <<"timeout">>]
  IN  IF o.cors # "off" /\ q.method = "OPTIONS"
      THEN [ctx |-> [c EXCEPT !.pc = "done", !.stages = st1],
            res |-> End([rs1 EXCEPT !.statusCode = 204], <<>>),
            probed |-> pr]
      ELSE IF Malformed(UrlPathname(q.url))
      THEN [ctx |-> [armed EXCEPT !.pc = "done", !.escaped = TRUE],
            res |-> rs1, probed |-> pr]
      ELSE LET pathname == DecodeURIComponent(UrlPathname(q.url))
               apiPath  == StripApi(pathname)
           IN  Guard("dev", q,
                     [armed EXCEPT !.apiPath = apiPath,
                                   !.stages = armed.stages \o <<"resolve">>],
                     rs1, pr, CandidateFile(apiPath), NoParams)

\* --------------------------------------------------------- production runtime
Mime(f) ==
  IF f[Len(f)] = "html" THEN "text/html" ELSE "application/octet-stream"

FileContent(f) == <<"content of">> \o f

\* entry.mjs:157-182
ProdStatic(c, rs, pr, pathname) ==
  IF ~ExistsSync(clientDir)
  THEN [ctx |-> [c EXCEPT !.pc = "done"],
        res |-> ProdSend(rs, 404, "none", <<"Not Found">>).res,
        probed |-> pr \cup {clientDir}]
  ELSE
  LET joined == PathJoin(clientDir, pathname)
      isRoot == pathname = <<"/">>
      pr1    == IF isRoot THEN pr \cup {clientDir}
                ELSE pr \cup {clientDir, joined}
      file   == IF isRoot \/ ~ExistsSync(joined)
                THEN PathJoin(clientDir, <<"index", ".", "html">>)
                ELSE joined
      safeClientPath == PathNormalize(PathResolve(<<"/">>, file))
  IN  IF ~Contained(safeClientPath, clientDir)
      THEN [ctx |-> [c EXCEPT !.pc = "done"],
            res |-> ProdSend(rs, 403, "none", <<"Forbidden">>).res,
            probed |-> pr1]
      ELSE IF ~ExistsSync(safeClientPath)
      THEN [ctx |-> [c EXCEPT !.pc = "done"],
            res |-> ProdSend(rs, 404, "none", <<"Not Found">>).res,
            probed |-> pr1 \cup {safeClientPath}]
      ELSE [ctx |-> [c EXCEPT !.pc = "stream", !.file = safeClientPath],
            res |-> WriteHead(rs, 200, Mime(safeClientPath)),
            probed |-> pr1 \cup {safeClientPath}]

\* the start of the callback going to the route table without a look at disk
ProdStartAlwaysMatches(q, c, rs, rc, pr) ==
  LET armed == [c EXCEPT !.timer = "armed",
                           !.stages = c.stages \o <<"timeout">>]
  IN  IF Malformed(UrlPathname(q.url))
      THEN [ctx |-> Finished(armed, ProdOuterCatch(rs, MsgUri)),
            res |-> ProdOuterCatch(rs, MsgUri).res, probed |-> pr]
      ELSE
      LET pathname == DecodeURIComponent(UrlPathname(q.url))
          apiPath  == StripApi(pathname)
          filePath == CandidateFile(apiPath)
          c1       == [armed EXCEPT !.apiPath = apiPath, !.file = filePath,
                                    !.stages = armed.stages \o <<"resolve">>]
      IN  IF ~StartsWith(pathname, <<"/", "api", "/">>)
          THEN ProdStatic(armed, rs, pr, pathname)
          ELSE IF ~rc.set
          THEN [ctx |-> [c1 EXCEPT !.pc = "glob"], res |-> rs,
                probed |-> pr \cup {filePath}]
          ELSE Guard("prod", q, [c1 EXCEPT !.table = rc.routes], rs,
                     pr \cup {filePath},
                     Resolve(rc.routes, apiPath, filePath).file,
                     Resolve(rc.routes, apiPath, filePath).params)

\* entry.mjs:89-107, up to the first await
ProdStart(q, c, rs, rc, pr) ==
  LET armed == [c EXCEPT !.timer = "armed",
                           !.stages = c.stages \o <<"timeout">>]
  IN  IF Malformed(UrlPathname(q.url))
      THEN [ctx |-> Finished(armed, ProdOuterCatch(rs, MsgUri)),
            res |-> ProdOuterCatch(rs, MsgUri).res, probed |-> pr]
      ELSE
      LET pathname == DecodeURIComponent(UrlPathname(q.url))
          apiPath  == StripApi(pathname)
          filePath == CandidateFile(apiPath)
          c1       == [armed EXCEPT !.apiPath = apiPath, !.file = filePath,
                                    !.stages = armed.stages \o <<"resolve">>]
      IN  IF ~StartsWith(pathname, <<"/", "api", "/">>)
          THEN ProdStatic(armed, rs, pr, pathname)
          ELSE IF ExistsSync(filePath)
          THEN Guard("prod", q, c1, rs, pr \cup {filePath}, filePath, NoParams)
          ELSE IF ~rc.set
          THEN [ctx |-> [c1 EXCEPT !.pc = "glob"], res |-> rs,
                probed |-> pr \cup {filePath}]
          ELSE Guard("prod", q, [c1 EXCEPT !.table = rc.routes], rs,
                     pr \cup {filePath},
                     Resolve(rc.routes, apiPath, filePath).file,
                     Resolve(rc.routes, apiPath, filePath).params)

\* ------------------------------------------------------------------ actions
Apply(r, out) ==
  /\ ctx' = [ctx EXCEPT ![r] = out.ctx]
  /\ res' = [res EXCEPT ![r] = out.res]
  /\ probed' = out.probed

\* the callback runs up to its first await
Start(r) ==
  /\ ctx[r].pc = "start"
  /\ Apply(r, IF engine = "dev"
              THEN DevStart(req[r], ctx[r], res[r], options, probed)
              ELSE ProdStart(req[r], ctx[r], res[r], routeCache, probed))
  /\ UNCHANGED <<engine, options, req, routeCache, moduleCache, world>>

\* the glob's answer assigned entry by entry, the request resuming after
\* the first one
GlobDonePartial(r) ==
  /\ ctx[r].pc = "glob"
  /\ routeCache' = [set |-> TRUE, routes |-> BuildRoutes(SubSeq(GlobApi, 1, 1))]
  /\ Apply(r, Guard("prod", req[r],
                    [ctx[r] EXCEPT !.table = BuildRoutes(SubSeq(GlobApi, 1, 1))],
                    res[r], probed,
                    Resolve(BuildRoutes(SubSeq(GlobApi, 1, 1)), ctx[r].apiPath,
                            ctx[r].file).file,
                    Resolve(BuildRoutes(SubSeq(GlobApi, 1, 1)), ctx[r].apiPath,
                            ctx[r].file).params))
  /\ UNCHANGED <<engine, options, req, moduleCache, world>>

\* entry.mjs:51-59 and 108-129: fast-glob answers, the table is assigned
\* and the request is matched against it
GlobDone(r) ==
  /\ ctx[r].pc = "glob"
  /\ routeCache' = [set |-> TRUE, routes |-> BuildRoutes(GlobApi)]
  /\ Apply(r, Guard("prod", req[r],
                    [ctx[r] EXCEPT !.table = BuildRoutes(GlobApi)],
                    res[r], probed,
                    Resolve(BuildRoutes(GlobApi), ctx[r].apiPath,
                            ctx[r].file).file,
                    Resolve(BuildRoutes(GlobApi), ctx[r].apiPath,
                            ctx[r].file).params))
  /\ UNCHANGED <<engine, options, req, moduleCache, world>>

\* index.js:123-126 / entry.mjs:81 with 148-153
BodyTooLarge(e, rs) ==
  IF e = "dev" THEN DevBodyReject(rs, 413, MsgTooLarge)
  ELSE ProdCatch(rs, MsgTooLarge)

\* index.js:120-129 and entry.mjs:79-83: one chunk of the body arrives
BodyChunk(r) ==
  /\ ctx[r].pc = "body"
  /\ Len(ctx[r].rest) > 0
  /\ LET c     == ctx[r]
         chunk == Head(c.rest)
         total == c.total + ByteLength(chunk)
     IN  IF total > BodyLimit(engine, options)
         THEN /\ ctx' = [ctx EXCEPT ![r] =
                           [Finished(c, BodyTooLarge(engine, res[r]))
                              EXCEPT !.total = total, !.rest = Tail(c.rest)]]
              /\ res' = [res EXCEPT ![r] = BodyTooLarge(engine, res[r]).res]
         ELSE /\ ctx' = [ctx EXCEPT ![r] =
                           [c EXCEPT !.total = total, !.rest = Tail(c.rest),
                                     !.buf = Append(c.buf, chunk)]]
              /\ res' = res
  /\ UNCHANGED <<engine, options, req, routeCache, probed, moduleCache, world>>

\* index.js:131-132: fastJsonParse(Buffer.concat(chunks).toString() || "{}")
DevParse(buf) ==
  IF Len(Concat(buf)) = 0 THEN JsonParse(EmptyObject.json)
  ELSE JsonParse(Concat(buf))

\* entry.mjs:84-86
ProdParse(buf) ==
  IF Len(buf) = 0 THEN [err |-> FALSE, value |-> EmptyObject]
  ELSE IF Len(Concat(buf)) = 0 THEN JsonParse(EmptyObject.json)
  ELSE JsonParse(Concat(buf))

ParseBody(e, buf) == IF e = "dev" THEN DevParse(buf) ELSE ProdParse(buf)

\* index.js:134-139 / the SyntaxError of entry.mjs:85 caught at 148-153
InvalidJson(e, rs) ==
  IF e = "dev" THEN DevBodyReject(rs, 400, MsgInvalidJson)
  ELSE ProdCatch(rs, MsgSyntax)

\* the end of the body stream going on to the import after a parse error
BodyEndKeepsGoing(r) ==
  /\ ctx[r].pc = "body"
  /\ Len(ctx[r].rest) = 0
  /\ LET c == ctx[r]
     IN  IF ParseBody(engine, c.buf).err
         THEN /\ ctx' = [ctx EXCEPT ![r].pc = "import"]
              /\ res' = res
         ELSE /\ ctx' = [ctx EXCEPT ![r] =
                           [c EXCEPT !.hasBody = TRUE,
                                     !.body = ParseBody(engine, c.buf).value,
                                     !.stages = c.stages \o <<"body">>,
                                     !.pc = "import"]]
              /\ res' = res
  /\ UNCHANGED <<engine, options, req, routeCache, probed, moduleCache, world>>

\* index.js:131-142 and entry.mjs:84-86,133: the body stream has ended
BodyEnd(r) ==
  /\ ctx[r].pc = "body"
  /\ Len(ctx[r].rest) = 0
  /\ LET c == ctx[r]
     IN  IF ParseBody(engine, c.buf).err
         THEN /\ ctx' = [ctx EXCEPT ![r] = Finished(c, InvalidJson(engine, res[r]))]
              /\ res' = [res EXCEPT ![r] = InvalidJson(engine, res[r]).res]
         ELSE /\ ctx' = [ctx EXCEPT ![r] =
                           [c EXCEPT !.hasBody = TRUE,
                                     !.body = ParseBody(engine, c.buf).value,
                                     !.stages = c.stages \o <<"body">>,
                                     !.pc = "import"]]
              /\ res' = res
  /\ UNCHANGED <<engine, options, req, routeCache, probed, moduleCache, world>>

\* what the handler does to the response before it first suspends
HandlerBody == <<"Already done">>

\* the first chunk of a handler that streams its response
FirstChunk == <<"data: 1">>

\* outcome "stream": the handler calls res.write(chunk) and awaits what is
\* to follow, which does not come
HandlerSync(hb, rs) ==
  LET rs1 == IF hb.status # 0 THEN [rs EXCEPT !.statusCode = hb.status] ELSE rs
  IN  IF hb.outcome = "stream" THEN Write(rs1, FirstChunk)
      ELSE IF hb.ends THEN End(rs1, HandlerBody) ELSE rs1

\* the handler finding the query of the first request of the server
SeenByFirst(e, q, c) ==
  [hasParams |-> e = "prod",
   params    |-> IF e = "prod" THEN c.params ELSE NoParams,
   hasBody   |-> c.hasBody,
   body      |-> c.body,
   hasQuery  |-> TRUE,
   query     |-> ParseQuery(req[1].url)]

\* the request as the handler finds it: req.query is set at index.js:144
\* and entry.mjs:135; req.params is never set by index.js, entry.mjs:136
\* sets it
SeenBy(e, q, c) ==
  [hasParams |-> e = "prod",
   params    |-> IF e = "prod" THEN c.params ELSE NoParams,
   hasBody   |-> c.hasBody,
   body      |-> c.body,
   hasQuery  |-> TRUE,
   query     |-> ParseQuery(q.url)]

\* index.js:148 import(fileUrl + "?t=" + Date.now()); entry.mjs:140
\* import(fileUrl): the URL the loader is asked for, t = -1 for no query
ImportUrl(e, file, now) == [file |-> file, t |-> IF e = "dev" THEN now ELSE -1]

Cached(mc, u) == \E m \in mc : m.url = u

\* the loader evaluates a URL once: a URL it has is answered from its cache,
\* a new one with what is on disk
LoadedVersion(mc, u, d) ==
  IF Cached(mc, u) THEN (CHOOSE m \in mc : m.url = u).version ELSE d.edits

CacheAfter(mc, u, d) ==
  IF Cached(mc, u) THEN mc ELSE mc \cup {[url |-> u, version |-> d.edits]}

\* the import calling whatever the module exports
ImportAnyExport(r) ==
  /\ ctx[r].pc = "import"
  /\ ctx' = [ctx EXCEPT ![r] =
               [ctx[r] EXCEPT !.loaded = ctx[r].loaded \cup {ctx[r].file},
                              !.invoked = ctx[r].invoked + 1,
                              !.ran = LoadedVersion(moduleCache,
                                        ImportUrl(engine, ctx[r].file, clock),
                                        disk),
                              !.onDisk = disk.edits,
                              !.seen = SeenBy(engine, req[r], ctx[r]),
                              !.stages = ctx[r].stages \o <<"invoke">>,
                              !.pc = "handler"]]
  /\ res' = [res EXCEPT ![r] = HandlerSync(req[r].hb, res[r])]
  /\ moduleCache' = CacheAfter(moduleCache,
                               ImportUrl(engine, ctx[r].file, clock), disk)
  /\ UNCHANGED <<engine, options, req, routeCache, probed, world>>

\* index.js:144-150 and entry.mjs:135-142: the module is loaded and its
\* default export is called; the call returns a promise or throws
Import(r) ==
  /\ ctx[r].pc = "import"
  /\ LET c  == ctx[r]
         hb == req[r].hb
         u  == ImportUrl(engine, c.file, clock)
         l  == [c EXCEPT !.loaded = c.loaded \cup {c.file},
                         !.ran = LoadedVersion(moduleCache, u, disk),
                         !.onDisk = disk.edits]
     IN  /\ moduleCache' = CacheAfter(moduleCache, u, disk)
         /\ IF ~hb.hasDefault
            THEN /\ ctx' = [ctx EXCEPT ![r] =
                              [Finished(c, Catch(engine, res[r], MsgNotFunction))
                                 EXCEPT !.loaded = l.loaded,
                                        !.ran = l.ran,
                                        !.onDisk = l.onDisk]]
                 /\ res' = [res EXCEPT ![r] =
                              Catch(engine, res[r], MsgNotFunction).res]
            ELSE /\ ctx' = [ctx EXCEPT ![r] =
                              [l EXCEPT !.invoked = c.invoked + 1,
                                        !.seen = SeenBy(engine, req[r], c),
                                        !.stages = c.stages \o <<"invoke">>,
                                        !.pc = "handler"]]
                 /\ res' = [res EXCEPT ![r] = HandlerSync(hb, res[r])]
  /\ UNCHANGED <<engine, options, req, routeCache, probed, world>>

\* the return expression ({ body: req.body })
ReturnsBody == [json |-> <<"{", "\"body\":", "req.body", "}">>]

\* the value the handler's promise resolves to; a property whose value is
\* undefined is left out by the serializers, as if it were not there
ResultOf(hb, c) ==
  IF hb.result = ReturnsBody
  THEN (IF c.seen.hasBody THEN [json |-> WrapBody(c.seen.body.json)]
        ELSE EmptyObject)
  ELSE hb.result

\* index.js:150-168 and entry.mjs:142-153: the handler's promise settles
HandlerDone(r) ==
  /\ ctx[r].pc = "handler"
  /\ req[r].hb.outcome \notin {"hang", "stream"}
  /\ LET c  == ctx[r]
         hb == req[r].hb
     IN  IF hb.outcome = "throw"
         THEN /\ ctx' = [ctx EXCEPT ![r] = Finished(c, Catch(engine, res[r], hb.msg))]
              /\ res' = [res EXCEPT ![r] = Catch(engine, res[r], hb.msg).res]
         ELSE IF hb.outcome = "thrownull"
         THEN /\ ctx' = [ctx EXCEPT ![r] = Finished(c, CatchNonError(engine, res[r]))]
              /\ res' = [res EXCEPT ![r] = CatchNonError(engine, res[r]).res]
         ELSE /\ ctx' = [ctx EXCEPT ![r].pc = "done",
                                    ![r].stages = c.stages \o <<"finalize">>]
              /\ res' = [res EXCEPT ![r] =
                           Finalize(engine, res[r], ResultOf(hb, c))]
  /\ UNCHANGED <<engine, options, req, routeCache, probed, moduleCache, world>>

\* the timeout ending the lifecycle together with the response
TimeoutFireAborts(r) ==
  /\ ctx[r].timer = "armed"
  /\ ctx[r].pc # "start"
  /\ ctx' = [ctx EXCEPT ![r].timer = "fired",
                        ![r].firedAt = ctx[r].pc,
                        ![r].pc = "done",
                        ![r].uncaught = TimeoutCallback(engine, res[r]).threw]
  /\ res' = [res EXCEPT ![r] = TimeoutCallback(engine, res[r]).res]
  /\ UNCHANGED <<engine, options, req, routeCache, probed, moduleCache, world>>

\* the socket timeout fires, at any await or after the callback returned;
\* firedAt keeps where the lifecycle was
TimeoutFire(r) ==
  /\ ctx[r].timer = "armed"
  /\ ctx[r].pc # "start"
  /\ ctx' = [ctx EXCEPT ![r].timer = "fired",
                        ![r].firedAt = ctx[r].pc,
                        ![r].uncaught = TimeoutCallback(engine, res[r]).threw]
  /\ res' = [res EXCEPT ![r] = TimeoutCallback(engine, res[r]).res]
  /\ UNCHANGED <<engine, options, req, routeCache, probed, moduleCache, world>>

\* entry.mjs:182: the read stream has been piped and ends the response; the
\* stream of a directory emits 'error' (EISDIR), which nothing listens to:
\* the exception is uncaught and the response is never ended
StreamEnd(r) ==
  /\ ctx[r].pc = "stream"
  /\ IF ctx[r].file \in Dirs
     THEN /\ ctx' = [ctx EXCEPT ![r].pc = "done", ![r].uncaught = TRUE]
          /\ res' = res
     ELSE /\ ctx' = [ctx EXCEPT ![r].pc = "done"]
          /\ res' = [res EXCEPT ![r] = End(res[r], FileContent(ctx[r].file))]
  /\ UNCHANGED <<engine, options, req, routeCache, probed, moduleCache, world>>

Next ==
  \/ \E r \in DOMAIN req : Start(r)
  \/ \E r \in DOMAIN req : GlobDone(r)
  \/ \E r \in DOMAIN req : BodyChunk(r)
  \/ \E r \in DOMAIN req : BodyEnd(r)
  \/ \E r \in DOMAIN req : Import(r)
  \/ \E r \in DOMAIN req : HandlerDone(r)
  \/ \E r \in DOMAIN req : TimeoutFire(r)
  \/ \E r \in DOMAIN req : StreamEnd(r)

\* ------------------------------------------ one request, run to its end
\* The callback of one request run alone, with no timeout firing and an
\* empty route cache: the steps of the actions above, composed.

\* index.js:118-142 and entry.mjs:76-87,133, the body loop to its end
RECURSIVE RunBody(_, _, _, _)
RunBody(e, o, c, rs) ==
  IF Len(c.rest) = 0
  THEN (IF ParseBody(e, c.buf).err
        THEN [ctx |-> Finished(c, InvalidJson(e, rs)),
              res |-> InvalidJson(e, rs).res]
        ELSE [ctx |-> [c EXCEPT !.hasBody = TRUE,
                                !.body = ParseBody(e, c.buf).value,
                                !.pc = "import"],
              res |-> rs])
  ELSE IF c.total + ByteLength(Head(c.rest)) > BodyLimit(e, o)
       THEN [ctx |-> Finished(c, BodyTooLarge(e, rs)),
             res |-> BodyTooLarge(e, rs).res]
       ELSE RunBody(e, o,
                    [c EXCEPT !.total = c.total + ByteLength(Head(c.rest)),
                              !.rest = Tail(c.rest),
                              !.buf = Append(c.buf, Head(c.rest))],
                    rs)

\* index.js:144-150 and entry.mjs:135-142, the import and the call
RunImport(e, q, c, rs) ==
  IF ~q.hb.hasDefault
  THEN [ctx |-> Finished(c, Catch(e, rs, MsgNotFunction)),
        res |-> Catch(e, rs, MsgNotFunction).res]
  ELSE [ctx |-> [c EXCEPT !.seen = SeenBy(e, q, c), !.pc = "handler"],
        res |-> HandlerSync(q.hb, rs)]

\* index.js:150-168 and entry.mjs:142-153, the handler's promise settling;
\* a handler that never settles leaves the response as it is
RunHandler(e, q, c, rs) ==
  IF q.hb.outcome \in {"hang", "stream"} THEN rs
  ELSE IF q.hb.outcome = "throw" THEN Catch(e, rs, q.hb.msg).res
  ELSE IF q.hb.outcome = "thrownull" THEN CatchNonError(e, rs).res
  ELSE Finalize(e, rs, ResultOf(q.hb, c))

\* index.js:69-150 and entry.mjs:89-142, up to the call of the handler
RunToHandler(e, o, q) ==
  LET started  == IF e = "dev"
                  THEN DevStart(q, NewContext, NewResponse, o, {})
                  ELSE ProdStart(q, NewContext, NewResponse,
                                 [set |-> FALSE, routes |-> <<>>], {})
      resolved == IF started.ctx.pc = "glob"
                  THEN Guard("prod", q, started.ctx, started.res, {},
                             Resolve(BuildRoutes(GlobApi), started.ctx.apiPath,
                                     started.ctx.file).file,
                             Resolve(BuildRoutes(GlobApi), started.ctx.apiPath,
                                     started.ctx.file).params)
                  ELSE started
      decoded  == IF resolved.ctx.pc = "body"
                  THEN RunBody(e, o, resolved.ctx, resolved.res)
                  ELSE [ctx |-> resolved.ctx, res |-> resolved.res]
  IN  IF decoded.ctx.pc = "import"
      THEN RunImport(e, q, decoded.ctx, decoded.res)
      ELSE decoded

\* index.js:69-169 and entry.mjs:89-187
Run(e, o, q) ==
  LET called == RunToHandler(e, o, q)
  IN  IF called.ctx.pc = "handler"
      THEN RunHandler(e, q, called.ctx, called.res)
      ELSE IF called.ctx.pc = "stream" /\ called.ctx.file \notin Dirs
      THEN End(called.res, FileContent(called.ctx.file))
      ELSE called.res

\* ------------------------------------------------------------ hot reload
\* a millisecond passes: Date.now() of index.js:148 gives the next value
Tick ==
  /\ clock < MaxClock
  /\ clock' = clock + 1
  /\ UNCHANGED <<engine, options, req, ctx, res, routeCache, probed,
                 moduleCache, server, disk, env, build>>

\* the developer saves the handler file
Edit ==
  /\ disk.edits < MaxEdits
  /\ disk' = [disk EXCEPT !.edits = disk.edits + 1]
  /\ UNCHANGED <<engine, options, req, ctx, res, routeCache, probed,
                 moduleCache, server, clock, env, build>>

NextReload ==
  \/ \E r \in DOMAIN req : Start(r)
  \/ \E r \in DOMAIN req : Import(r)
  \/ \E r \in DOMAIN req : HandlerDone(r)
  \/ \E r \in DOMAIN req : TimeoutFire(r)
  \/ Tick
  \/ Edit

\* ----------------------------------------------------------------- the build
Digit(d) == <<"0", "1", "2", "3", "4", "5", "6", "7", "8", "9">>[d + 1]

\* String(n), what an assignment to process.env stores for a number
RECURSIVE ToStr(_)
ToStr(n) == IF n < 10 THEN Digit(n) ELSE ToStr(n \div 10) \o Digit(n % 10)

DefaultPort == 4173

DefaultTimeout == 30000

\* a || b of JavaScript on an environment value: undefined and "" are falsy
Falsy(v) == v = Unset \/ v = ""

\* index.js:45, options.port || process.env.PORT || 4173, as the string the
\* environment stores
PortOf(o, ev) ==
  IF o.port # 0 THEN ToStr(o.port)
  ELSE IF ~Falsy(ev.PORT) THEN ev.PORT
  ELSE ToStr(DefaultPort)

\* index.js:47, options.timeout || 30000
TimeoutOf(o) == ToStr(IF o.timeout # 0 THEN o.timeout ELSE DefaultTimeout)

\* index.js:189-191
EnvAfterCloseBundle(o, ev, ev0) ==
  [ev EXCEPT !.VITE_NODE_API_PORT = PortOf(o, ev0),
             !.VITE_NODE_API_TIMEOUT = TimeoutOf(o),
             !.NODE_ENV = IF Falsy(ev.NODE_ENV) THEN "production"
                          ELSE ev.NODE_ENV]

\* closeBundle calling buildBackend before it sets the environment
CloseBundleBuildsFirst ==
  /\ build.pc = "closeBundle"
  /\ env' = EnvAfterCloseBundle(options, env, build.envBefore)
  /\ build' = [build EXCEPT !.pc = "glob", !.outDir = TRUE,
                            !.envAtBuild = env]
  /\ UNCHANGED <<engine, options, req, ctx, res, routeCache, probed,
                 moduleCache, server, disk, clock>>

\* index.js:188-192 and builder.js:14-18: closeBundle sets the environment
\* and calls buildBackend, which creates dist/server and awaits the glob
CloseBundle ==
  /\ build.pc = "closeBundle"
  /\ env' = EnvAfterCloseBundle(options, env, build.envBefore)
  /\ build' = [build EXCEPT !.pc = "glob", !.outDir = TRUE,
                            !.envAtBuild = env']
  /\ UNCHANGED <<engine, options, req, ctx, res, routeCache, probed,
                 moduleCache, server, disk, clock>>

LogNoFiles == "warn: no API files found to build"

LogBuilding == "log: building backend..."

LogNoRuntime == "warn: runtime entry.mjs not found!"

LogDone == "log: backend bundled"

LogError == "error: vite-node-api build error"

\* builder.js:18-45: the glob answers; without entry points buildBackend
\* warns and returns, otherwise it calls the bundler and awaits it
GlobReturns ==
  /\ build.pc = "glob"
  /\ IF build.entries = {}
     THEN build' = [build EXCEPT !.pc = "done",
                                 !.log = Append(build.log, LogNoFiles),
                                 !.outcome = "resolved", !.hook = "resolved"]
     ELSE build' = [build EXCEPT !.pc = "bundle",
                                 !.log = Append(build.log, LogBuilding),
                                 !.minify = env.NODE_ENV = "production"]
  /\ UNCHANGED <<engine, options, req, ctx, res, routeCache, probed,
                 moduleCache, server, disk, clock, env>>

\* the end of the build with a catch that logs and does not rethrow
BundleDoneSwallows ==
  /\ build.pc = "bundle"
  /\ IF build.bundlerFails
     THEN build' = [build EXCEPT !.pc = "done",
                                 !.log = Append(build.log, LogError),
                                 !.outcome = "resolved", !.hook = "resolved"]
     ELSE build' = [build EXCEPT
                      !.pc = "done",
                      !.bundled = build.bundled + 1,
                      !.copied = build.runtimeFound,
                      !.log = IF build.runtimeFound
                              THEN Append(build.log, LogDone)
                              ELSE build.log \o <<LogNoRuntime, LogDone>>,
                      !.outcome = "resolved", !.hook = "resolved"]
  /\ UNCHANGED <<engine, options, req, ctx, res, routeCache, probed,
                 moduleCache, server, disk, clock, env>>

\* builder.js:45-56 and index.js:192: the bundler settles. On success the
\* runtime is copied when it is found, else a warning is logged; a failure
\* is logged and rethrown, and closeBundle, which awaits buildBackend
\* without a catch, rejects with it
BundleDone ==
  /\ build.pc = "bundle"
  /\ IF build.bundlerFails
     THEN build' = [build EXCEPT !.pc = "done",
                                 !.log = Append(build.log, LogError),
                                 !.outcome = "rejected", !.hook = "rejected"]
     ELSE build' = [build EXCEPT
                      !.pc = "done",
                      !.bundled = build.bundled + 1,
                      !.copied = build.runtimeFound,
                      !.log = IF build.runtimeFound
                              THEN Append(build.log, LogDone)
                              ELSE build.log \o <<LogNoRuntime, LogDone>>,
                      !.outcome = "resolved", !.hook = "resolved"]
  /\ UNCHANGED <<engine, options, req, ctx, res, routeCache, probed,
                 moduleCache, server, disk, clock, env>>

NextBuild ==
  \/ CloseBundle
  \/ GlobReturns
  \/ BundleDone

\* ------------------------------------------------------------ initial states
Seps == {"/", "%2F"}

SegSet == {<<"h">>, <<".", ".">>, <<"api", "-evil">>, <<"users">>, <<"123">>}

\* the separator-and-segment sequences of at most n segments
RECURSIVE Tails(_)
Tails(n) ==
  IF n = 0 THEN {<<>>}
  ELSE Tails(n - 1)
         \cup {<<sep>> \o seg \o t :
                 sep \in Seps, seg \in SegSet, t \in Tails(n - 1)}

GenUrls == {<<"/", "api">> \o sep \o seg \o t :
              sep \in Seps, seg \in SegSet, t \in Tails(MaxSegs)}

UrlH == <<"/", "api", "/", "h">>

UrlUser == <<"/", "api", "/", "users", "/", "123">>

UrlEvil == <<"/", "api", "/", ".", ".", "%2F", "api", "-evil", "/", "h">>

UrlOut == <<"/", "api", "/", ".", ".", "%2F", ".", ".", "%2F", "h">>

\* the path written with the brackets of the file name
UrlUserLiteral == <<"/", "api", "/", "users", "/", "[", "id", "]">>

OtherUrls ==
  {<<"/">>, <<"/", "h">>, <<"/", "api", "h">>, <<"/", "api", "/", "%">>,
   <<"/", "api", "/", "%2E", "%2E", "/", "h">>,
   <<"/", "api", "/", "[", "id", "]">>,
   <<"/", ".", ".", "%2F", "client", "-evil", "/", "h">>,
   <<"/", "x">>, <<"/", "assets">>, UrlUserLiteral}

LifeUrls == {UrlH, UrlUser, UrlEvil, UrlOut}

Methods == {"GET", "POST", "PUT", "PATCH", "DELETE", "OPTIONS"}

\* <<>> is a chunk of no bytes
ChunkSet ==
  {<<"{">>, <<"}">>, <<"{", "}">>, <<"x">>, <<" ">>, <<"PAD1M">>, <<"null">>,
   <<>>}

\* the bodies of at most n chunks
RECURSIVE Chunkings(_)
Chunkings(n) ==
  IF n = 0 THEN {<<>>}
  ELSE Chunkings(n - 1)
         \cup {<<ch>> \o t : ch \in ChunkSet, t \in Chunkings(n - 1)}

ValueA == [json |-> <<"{", "\"a\":1", "}">>]

Handler(status, ends, outcome, msg, result, hasDefault) ==
  [status |-> status, ends |-> ends, outcome |-> outcome, msg |-> msg,
   result |-> result, hasDefault |-> hasDefault]

SimpleHandler == Handler(0, FALSE, "return", <<>>, ValueA, TRUE)

ThrowingHandler == Handler(0, FALSE, "throw", <<"boom">>, Undefined, TRUE)

\* export default () => { throw null }
NullThrowingHandler == Handler(0, FALSE, "thrownull", <<>>, Undefined, TRUE)

\* export default async (req, res) => { res.write("data: 1"); await more }
StreamingHandler == Handler(0, FALSE, "stream", <<>>, Undefined, TRUE)

\* export default (req) => ({ body: req.body })
EchoHandler == Handler(0, FALSE, "return", <<>>, ReturnsBody, TRUE)

Handlers ==
  {Handler(st, en, "return", <<>>, rv, TRUE) :
     st \in {0, 201}, en \in BOOLEAN, rv \in {Undefined, Null, ValueA}}
  \cup {Handler(0, en, "throw", m, Undefined, TRUE) :
          en \in BOOLEAN, m \in {<<"boom">>, <<"file ", "too large">>}}
  \cup {Handler(0, en, "hang", <<>>, Undefined, TRUE) : en \in BOOLEAN}
  \cup {NullThrowingHandler, StreamingHandler}
  \cup {Handler(0, FALSE, "return", <<>>, Undefined, FALSE)}

DefaultOptions == [bodyLimit |-> 0, cors |-> "off", port |-> 0, timeout |-> 0]

\* bodyLimit 0 stands for an option that is not given
BodyLimits == {0, 2, 2000000}

\* cors: absent, true, {} and {origin: "https://o"}
CorsSettings == {"off", "on", "{}", "https://o"}

Request(m, u, ch, hb) == [method |-> m, url |-> u, chunks |-> ch, hb |-> hb]

\* every path, read by the simplest handler
PathRequests ==
  {Request("GET", u, <<>>, SimpleHandler) : u \in GenUrls \cup OtherUrls}

\* every body, in every chunking
BodyRequests ==
  {Request(m, UrlH, ch, hb) :
     m \in Mutating, ch \in Chunkings(MaxChunks),
     hb \in {SimpleHandler, ThrowingHandler, EchoHandler}}
  \cup {Request(m, UrlH, ch, EchoHandler) :
          m \in Methods \ Mutating, ch \in Chunkings(1)}

QueryItems ==
  {<<k, "=">> \o v : k \in {"name", "id"},
                      v \in {<<"test">>, <<"123">>, <<"a", "+", "b">>}}
  \cup {<<"name">>, <<>>, <<"id", "=", "1", "=", "2">>}

\* the query strings of at most n items
RECURSIVE QueryStrings(_)
QueryStrings(n) ==
  IF n = 0 THEN {<<>>}
  ELSE QueryStrings(n - 1)
         \cup {it \o <<"&">> \o t : it \in QueryItems, t \in QueryStrings(n - 1)}

\* ?name=test&id=123
QueryNameId == <<"name", "=", "test", "&", "id", "=", "123">>

\* every query string, on a path that resolves
QueryRequests ==
  {Request(m, UrlH \o <<"?">> \o qs, <<>>, SimpleHandler) :
     m \in {"GET", "POST"}, qs \in QueryStrings(MaxPairs) \cup {QueryNameId}}

UrlMissing == <<"/", "api", "/", "123">>

\* a path no file and no route entry answers, with and without a body
MissingRequests ==
  {Request(m, UrlMissing, ch, SimpleHandler) :
     m \in Methods, ch \in {<<>>, << <<"{", "}">> >>}}

\* every handler
HandlerRequests ==
  {Request(m, u, <<>>, hb) :
     m \in Methods, u \in LifeUrls, hb \in Handlers}

\* the process environment the server is started in
ServerEnv ==
  [PORT |-> Unset, NODE_ENV |-> Unset,
   VITE_NODE_API_PORT |-> Unset, VITE_NODE_API_TIMEOUT |-> Unset]

\* a build that has not been asked for
NoBuild ==
  [pc |-> "idle", entries |-> {}, bundlerFails |-> FALSE,
   runtimeFound |-> FALSE, envBefore |-> ServerEnv, envAtBuild |-> ServerEnv,
   outDir |-> FALSE, bundled |-> 0, minify |-> FALSE, copied |-> FALSE,
   log |-> <<>>, outcome |-> "pending", hook |-> "pending"]

DiskAtStart == [client |-> TRUE, edits |-> 0]

\* entry.mjs:189: the server listens; every request has a connection in
\* state cn ("none": the client has not connected; "open"; "closed")
Listening(qs, cn) ==
  [listening |-> TRUE, conn |-> [i \in DOMAIN qs |-> cn], signals |-> <<>>,
   callbacks |-> 0, atSignal |-> {}, closed |-> FALSE, exited |-> FALSE, code |-> 0]

\* the server with the requests qs accepted and none of them started
InitOn(e, o, qs, d) ==
  /\ engine = e
  /\ options = o
  /\ req = qs
  /\ ctx = [i \in DOMAIN qs |-> NewContext]
  /\ res = [i \in DOMAIN qs |-> NewResponse]
  /\ routeCache = [set |-> FALSE, routes |-> <<>>]
  /\ probed = {}
  /\ moduleCache = {}
  /\ disk = d
  /\ clock = 0
  /\ env = ServerEnv
  /\ build = NoBuild
  /\ server = Listening(qs, "open")

InitWith(e, o, q) == InitOn(e, o, <<q>>, DiskAtStart)

\* dist/client is there or not (entry.mjs:39, API-only mode)
Disks == {[client |-> cl, edits |-> 0] : cl \in BOOLEAN}

Init ==
  \E e \in {"dev", "prod"} :
    \/ \E q \in PathRequests, d \in Disks : InitOn(e, DefaultOptions, <<q>>, d)
    \/ \E q \in QueryRequests : InitWith(e, DefaultOptions, q)
    \/ \E q \in BodyRequests, l \in BodyLimits :
         InitWith(e, [DefaultOptions EXCEPT !.bodyLimit = l], q)
    \/ \E q \in HandlerRequests \cup MissingRequests, co \in CorsSettings :
         InitWith(e, [DefaultOptions EXCEPT !.cors = co], q)

Spec == Init /\ [][Next]_vars

\* two requests for the same route, on a dev server or a production runtime
InitReload ==
  \E e \in {"dev", "prod"} :
    InitOn(e, DefaultOptions,
           <<Request("GET", UrlH, <<>>, SimpleHandler),
             Request("GET", UrlH, <<>>, SimpleHandler)>>,
           DiskAtStart)

SpecReload == InitReload /\ [][NextReload]_vars

\* the requests that are served two at a time
ConcRequests ==
  {Request("GET", UrlH, <<>>, SimpleHandler),
   Request("GET", UrlUser, <<>>, SimpleHandler),
   Request("GET", <<"/", "api", "/", "users", "/", "h">>, <<>>, EchoHandler),
   Request("GET", UrlH \o <<"?">> \o QueryNameId, <<>>, SimpleHandler),
   Request("GET", UrlH, <<>>, ThrowingHandler),
   Request("POST", UrlH, <<<<"{">>, <<"}">>>>, EchoHandler),
   Request("POST", UrlH, <<<<"null">>>>, EchoHandler),
   Request("GET", <<"/", "h">>, <<>>, SimpleHandler)}

\* two requests accepted and none of them started
InitConc ==
  \E e \in {"dev", "prod"}, q1 \in ConcRequests, q2 \in ConcRequests :
    InitOn(e, DefaultOptions, <<q1, q2>>, DiskAtStart)

SpecConc == InitConc /\ [][Next]_vars

HangingHandler == Handler(0, FALSE, "hang", <<>>, Undefined, TRUE)

\* the requests whose end is followed: every handler, every body, and the
\* paths that are refused, not found, matched by a pattern or static
LiveRequests ==
  {Request(m, UrlH, <<>>, hb) : m \in {"GET", "OPTIONS"}, hb \in Handlers}
  \cup {Request("POST", UrlH, ch, hb) :
          ch \in Chunkings(MaxChunks),
          hb \in {SimpleHandler, ThrowingHandler, HangingHandler}}
  \cup {Request("GET", u, <<>>, SimpleHandler) :
          u \in {UrlUser, UrlMissing, UrlEvil, <<"/", "h">>}}

InitLive ==
  \E e \in {"dev", "prod"}, q \in LiveRequests, co \in {"off", "on"} :
    InitWith(e, [DefaultOptions EXCEPT !.cors = co], q)

\* a step of the server is ready for request r: the callback, the listing,
\* the import, the settled promise of a handler that settles, the end of
\* the file stream (the guards of Start, GlobDone, Import, HandlerDone and
\* StreamEnd)
ServerReady(r) ==
  \/ ctx[r].pc \in {"start", "glob", "import", "stream"}
  \/ ctx[r].pc = "handler" /\ req[r].hb.outcome \notin {"hang", "stream"}

\* index.js:88 and entry.mjs:91: the timer is armed (the guard of
\* TimeoutFire)
TimerReady(r) == ctx[r].timer = "armed" /\ ctx[r].pc # "start"

\* weak fairness of the server's steps and of the timer, WF_vars written
\* out with the guards for ENABLED: a step that is ready does not stay
\* ready for ever, and only taking it ends its being ready. The chunks of
\* the body are the client's to send, and a client may stall
Fairness ==
  /\ []<>(\A r \in DOMAIN req : ~ServerReady(r))
  /\ []<>(\A r \in DOMAIN req : ~TimerReady(r))

SpecLive == InitLive /\ [][Next]_vars /\ Fairness

\* ---------------------------------------------------------------- shutdown
\* entry.mjs:189-201: the listener, its connections and the signal handlers

\* the signals the process is sent
MaxSignals == 2

\* the process has not exited
Alive == ~server.exited

Others == <<engine, options, req, ctx, res, routeCache, probed, moduleCache,
            disk, clock, env, build>>

\* entry.mjs:89,189: the listening server accepts the connection of
\* request r, whose callback is then to run
Accept(r) ==
  /\ Alive
  /\ server.listening
  /\ server.conn[r] = "none"
  /\ server' = [server EXCEPT !.conn[r] = "open"]
  /\ UNCHANGED Others

\* the connection of a request whose response has ended is closed
ConnClose(r) ==
  /\ Alive
  /\ server.conn[r] = "open"
  /\ res[r].writableEnded
  /\ server' = [server EXCEPT !.conn[r] = "closed"]
  /\ UNCHANGED Others

\* the requests that are accepted and not answered
Unanswered == {r \in DOMAIN req : server.conn[r] = "open" /\ ~res[r].writableEnded}

\* a signal handler that exits at once
SignalExits(sig) ==
  /\ Alive
  /\ Len(server.signals) < MaxSignals
  /\ server' = [server EXCEPT
                  !.listening = FALSE,
                  !.signals = Append(server.signals, sig),
                  !.atSignal = IF server.signals = <<>> THEN Unanswered
                               ELSE server.atSignal,
                  !.exited = TRUE, !.code = 0]
  /\ UNCHANGED Others

\* entry.mjs:193-201: the handler of SIGTERM and SIGINT logs and calls
\* server.close(callback): the server stops listening and the callback is
\* registered for the 'close' event, also when the server has stopped
\* listening before; atSignal keeps the requests that were unanswered when
\* the first signal came
Signal(sig) ==
  /\ Alive
  /\ Len(server.signals) < MaxSignals
  /\ server' = [server EXCEPT
                  !.listening = FALSE,
                  !.signals = Append(server.signals, sig),
                  !.callbacks = server.callbacks + 1,
                  !.atSignal = IF server.signals = <<>> THEN Unanswered
                               ELSE server.atSignal]
  /\ UNCHANGED Others

\* entry.mjs:196-199: the server has stopped listening and its last
\* connection is closed, 'close' is emitted, and the first callback
\* registered calls process.exit(0)
ServerClosed ==
  /\ Alive
  /\ ~server.listening
  /\ server.callbacks > 0
  /\ \A r \in DOMAIN req : server.conn[r] # "open"
  /\ server' = [server EXCEPT !.closed = TRUE, !.exited = TRUE, !.code = 0]
  /\ UNCHANGED Others

\* an exception nothing catches, or a rejection nothing handles, ends the
\* process with code 1 (a rejection only where the runtime is set to throw)
Crash ==
  /\ Alive
  /\ \E r \in DOMAIN req : ctx[r].uncaught \/ ctx[r].escaped
  /\ server' = [server EXCEPT !.exited = TRUE, !.code = 1]
  /\ UNCHANGED Others

\* the steps of a request run while the process is there, the callback
\* once the connection is accepted
NextShutdown ==
  \/ \E r \in DOMAIN req : Accept(r)
  \/ \E r \in DOMAIN req : Alive /\ server.conn[r] = "open" /\ Start(r)
  \/ \E r \in DOMAIN req : Alive /\ GlobDone(r)
  \/ \E r \in DOMAIN req : Alive /\ BodyChunk(r)
  \/ \E r \in DOMAIN req : Alive /\ BodyEnd(r)
  \/ \E r \in DOMAIN req : Alive /\ Import(r)
  \/ \E r \in DOMAIN req : Alive /\ HandlerDone(r)
  \/ \E r \in DOMAIN req : Alive /\ TimeoutFire(r)
  \/ \E r \in DOMAIN req : Alive /\ StreamEnd(r)
  \/ \E r \in DOMAIN req : ConnClose(r)
  \/ \E sig \in {"SIGTERM", "SIGINT"} : Signal(sig)
  \/ ServerClosed
  \/ Crash

\* the requests sent to a server that is shut down
ShutRequests ==
  {Request("GET", UrlH, <<>>, SimpleHandler),
   Request("POST", UrlH, <<<<"{">>, <<"}">>>>, EchoHandler),
   Request("GET", <<"/", "api", "/", "users", "/", "h">>, <<>>, SimpleHandler),
   Request("GET", <<"/", "h">>, <<>>, SimpleHandler),
   Request("GET", UrlH, <<>>, HangingHandler),
   Request("GET", UrlH, <<>>, StreamingHandler)}

\* the production runtime listens and two clients are about to connect
InitShutdown ==
  \E q1 \in ShutRequests, q2 \in ShutRequests :
    /\ engine = "prod"
    /\ options = DefaultOptions
    /\ req = <<q1, q2>>
    /\ ctx = <<NewContext, NewContext>>
    /\ res = <<NewResponse, NewResponse>>
    /\ routeCache = [set |-> FALSE, routes |-> <<>>]
    /\ probed = {}
    /\ moduleCache = {}
    /\ disk = DiskAtStart
    /\ clock = 0
    /\ env = ServerEnv
    /\ build = NoBuild
    /\ server = Listening(<<q1, q2>>, "none")

SpecShutdown == InitShutdown /\ [][NextShutdown]_vars

\* the options and the environment a build is run with
Ports == {0, 5000}

Timeouts == {0, 20000}

PortEnvs == {Unset, "", "8080"}

NodeEnvs == {Unset, "", "development", "production", "staging"}

EntrySets == {{}, {HFile}, {HFile, UserIdFile}}

\* vite build has written the client bundle and calls the closeBundle hook
InitBuild ==
  \E po \in Ports, t \in Timeouts, pe \in PortEnvs, ne \in NodeEnvs,
     es \in EntrySets, bf \in BOOLEAN, rf \in BOOLEAN :
    /\ engine = "dev"
    /\ options = [DefaultOptions EXCEPT !.port = po, !.timeout = t]
    /\ req = <<>>
    /\ ctx = <<>>
    /\ res = <<>>
    /\ routeCache = [set |-> FALSE, routes |-> <<>>]
    /\ probed = {}
    /\ moduleCache = {}
    /\ disk = DiskAtStart
    /\ clock = 0
    /\ env = [ServerEnv EXCEPT !.PORT = pe, !.NODE_ENV = ne]
    /\ build = [NoBuild EXCEPT
                  !.pc = "closeBundle", !.entries = es, !.bundlerFails = bf,
                  !.runtimeFound = rf,
                  !.envBefore = [ServerEnv EXCEPT !.PORT = pe, !.NODE_ENV = ne]]
    /\ server = [Listening(<<>>, "none") EXCEPT !.listening = FALSE]

SpecBuild == InitBuild /\ [][NextBuild]_vars

\* ------------------------------------------------------------------ claims
\* what a request asks for, computed from the request alone
Pathname(q) == DecodeURIComponent(UrlPathname(q.url))

Candidate(q) == CandidateFile(StripApi(Pathname(q)))

\* the requests each engine takes for API requests: index.js:70 tests the
\* raw URL, entry.mjs:101 the decoded pathname
IsApiRequest(e, q) ==
  /\ ~Malformed(UrlPathname(q.url))
  /\ IF e = "dev" THEN StartsWith(q.url, <<"/", "api">>)
     ELSE StartsWith(Pathname(q), <<"/", "api", "/">>)

\* p is root followed by a separator and further segments
Inside(p, root) == StartsWith(p, root \o <<"/">>) /\ Len(p) > Len(root) + 1

BodyBytes(q) == ByteLength(Concat(q.chunks))

\* options.bodyLimit || 1_000_000, the limit the options ask for
ConfiguredLimit(o) == IF o.bodyLimit = 0 THEN DefaultBodyLimit ELSE o.bodyLimit

Answered(r) == ctx[r].pc = "done" /\ res[r].writableEnded

NoTimeout(r) == ctx[r].timer # "fired"

\* index.js:81-85, the CORS preflight reply
Preflight(r) == options.cors # "off" /\ req[r].method = "OPTIONS"

\* C1: a request whose decoded path resolves outside apiDir never has a
\* module loaded or a handler invoked, and is answered 403 or 404
C1_TraversalNeverLoads ==
  \A r \in DOMAIN req :
    (/\ IsApiRequest(engine, req[r])
     /\ ~Preflight(r)
     /\ ~Inside(Candidate(req[r]), apiDir)) =>
      /\ ctx[r].loaded = {}
      /\ ctx[r].invoked = 0
      /\ (Answered(r) /\ NoTimeout(r)) => res[r].sentStatus \in {403, 404}

\* C2: a candidate in a sibling directory whose name has apiDir's string as
\* a prefix is rejected as ForbiddenPath and its module is never loaded
C2_SiblingPrefixForbidden ==
  \A r \in DOMAIN req :
    (/\ IsApiRequest(engine, req[r])
     /\ ~Preflight(r)
     /\ StartsWith(Candidate(req[r]), apiDir)
     /\ ~Inside(Candidate(req[r]), apiDir)
     /\ Candidate(req[r]) \in Files) =>
      /\ Candidate(req[r]) \notin ctx[r].loaded
      /\ (Answered(r) /\ NoTimeout(r)) =>
           /\ res[r].sentStatus = 403
           /\ res[r].body = ErrorJson(MsgForbidden)

\* the response as the handler itself ended it
EndedByHandler(r) ==
  /\ ctx[r].pc \in {"handler", "done"}
  /\ res[r].writableEnded
  /\ res[r].body = HandlerBody

\* C3: once the handler has ended the response, no step of the router
\* changes the response and no exception escapes the callback
C3_HandlerEndIsFinal ==
  [][\A r \in DOMAIN req :
       EndedByHandler(r) => (res'[r] = res[r] /\ ~ctx'[r].escaped)]_vars

TimerFires(r) == ctx[r].timer = "armed" /\ ctx'[r].timer = "fired"

\* C4: a timeout that fires after the response has ended changes nothing
\* of the response
C4_LateTimeoutIsNoop ==
  [][\A r \in DOMAIN req :
       (TimerFires(r) /\ res[r].writableEnded) => res'[r] = res[r]]_vars

\* the timeout fired after somebody else had ended the response
C4_Witness ==
  \E r \in DOMAIN req :
    /\ IsApiRequest(engine, req[r])
    /\ ctx[r].timer = "fired"
    /\ ~ctx[r].uncaught
    /\ res[r].writableEnded
    /\ res[r].sentStatus # 408
    /\ res[r].ends = 1

TimeoutSent(r) ==
  res[r].writableEnded /\ res[r].body = ErrorJson(MsgTimeout)

\* C5: a timeout that fires while the response to an API request has not
\* ended ends it with status 408, content-type application/json and the
\* body {"error":"Request timeout"}, and the callback does not throw; the
\* response is ended once, and what was sent stays as it is
C5_TimeoutSends408 ==
  [][\A r \in DOMAIN req :
       /\ (/\ TimerFires(r)
           /\ IsApiRequest(engine, req[r])
           /\ ~res[r].writableEnded) =>
            /\ res'[r].writableEnded
            /\ res'[r].statusCode = 408
            /\ res'[r].sentStatus = 408
            /\ res'[r].ctype = Json
            /\ res'[r].body = ErrorJson(MsgTimeout)
            /\ res'[r].ends = 1
            /\ ~ctx'[r].uncaught
       /\ TimeoutSent(r) =>
            /\ res'[r].ends = 1
            /\ res'[r].sentStatus = 408
            /\ res'[r].ctype = Json
            /\ res'[r].body = ErrorJson(MsgTimeout)]_vars

\* the 408 was sent and the lifecycle went on to its end
C5_Witness ==
  \E r \in DOMAIN req :
    /\ TimeoutSent(r)
    /\ res[r].sentStatus = 408
    /\ ctx[r].pc = "done"
    /\ ctx[r].invoked = 1

\* C6: after the 408 has been sent while the body decoding or the handler
\* was in progress, their later completion writes nothing to the response
\* (no status, no header, no body) and no exception escapes; in the step
\* that calls the handler the response changes only as the handler itself
\* changes it
C6_NothingAfterTimeout ==
  [][\A r \in DOMAIN req :
       (TimeoutSent(r) /\ ctx[r].pc \in {"body", "import", "handler"}) =>
         /\ ctx'[r].escaped = ctx[r].escaped
         /\ \/ res'[r] = res[r]
            \/ /\ ctx[r].pc = "import"
               /\ res'[r] = HandlerSync(req[r].hb, res[r])]_vars

\* C7: a POST, PUT or PATCH to a resolvable route whose body has more bytes
\* than the configured bodyLimit is answered 413 "Request body too large",
\* and the handler module is neither loaded nor invoked
C7_BodyTooLarge413 ==
  \A r \in DOMAIN req :
    (/\ req[r].method \in Mutating
     /\ req[r].url = UrlH
     /\ ~JsonParse(Concat(req[r].chunks)).err
     /\ BodyBytes(req[r]) > ConfiguredLimit(options)) =>
      /\ ctx[r].loaded = {}
      /\ ctx[r].invoked = 0
      /\ (Answered(r) /\ NoTimeout(r)) =>
           /\ res[r].sentStatus = 413
           /\ res[r].body = ErrorJson(MsgTooLarge)

\* C8: a POST, PUT or PATCH to a resolvable route whose body is within the
\* limit and is not JSON is answered 400 with "Invalid JSON body", and the
\* handler is not invoked
C8_InvalidJson400 ==
  \A r \in DOMAIN req :
    (/\ req[r].method \in Mutating
     /\ req[r].url = UrlH
     /\ BodyBytes(req[r]) > 0
     /\ BodyBytes(req[r]) <= ConfiguredLimit(options)
     /\ BodyBytes(req[r]) <= DefaultBodyLimit
     /\ JsonParse(Concat(req[r].chunks)).err) =>
      /\ ctx[r].invoked = 0
      /\ (Answered(r) /\ NoTimeout(r)) =>
           /\ res[r].sentStatus = 400
           /\ Includes(res[r].body, "Invalid JSON body")

\* C9: a handler that throws or rejects before the response has ended is
\* answered 500 with the error's message, whatever the message
C9_HandlerError500 ==
  \A r \in DOMAIN req :
    (/\ req[r].hb.outcome = "throw"
     /\ ~req[r].hb.ends
     /\ ctx[r].invoked = 1
     /\ Answered(r)
     /\ NoTimeout(r)) =>
      /\ res[r].sentStatus = 500
      /\ res[r].body = ErrorJson(req[r].hb.msg)

\* C10: GET /api/users/123 is routed to users/[id].js and the handler sees
\* params.id = "123"
C10_DynamicRouteParam ==
  \A r \in DOMAIN req :
    (/\ req[r].url = UrlUser
     /\ req[r].method = "GET"
     /\ ctx[r].pc = "done"
     /\ NoTimeout(r)) =>
      /\ ctx[r].loaded = {UserIdFile}
      /\ ctx[r].invoked = 1
      /\ ctx[r].seen.hasParams
      /\ ctx[r].seen.params = [n \in {<<"id">>} |-> <<"123">>]

\* the request path has the shape of an entry of the route table: a
\* bracketed segment of the file's relative path stands for one segment
MatchesEntry(q) ==
  /\ StartsWith(StripApi(Pathname(q)), <<"/">>)
  /\ \E i \in 1..Len(GlobApi) :
       RegexExec(RouteOf(GlobApi[i]).regex, Tail(StripApi(Pathname(q)))).ok

\* a handler file in apiDir answers the path, directly or through an entry
Resolvable(q) ==
  \/ Inside(Candidate(q), apiDir) /\ Candidate(q) \in Files
  \/ MatchesEntry(q)

\* the handler returns a value and leaves the response open
ReturnsOpen(hb) == hb.hasDefault /\ hb.outcome = "return" /\ ~hb.ends

\* C11: a GET to a resolvable API path whose handler returns a value without
\* ending the response is answered 200, application/json, with the JSON
\* text of the value, and with {} when the value is undefined or null
C11_GetReturnsJson ==
  \A r \in DOMAIN req :
    (/\ IsApiRequest(engine, req[r])
     /\ req[r].method = "GET"
     /\ Resolvable(req[r])
     /\ ReturnsOpen(req[r].hb)
     /\ req[r].hb.status = 0
     /\ req[r].hb.result \in {Undefined, Null, ValueA}
     /\ Answered(r)
     /\ NoTimeout(r)) =>
      /\ res[r].sentStatus = 200
      /\ res[r].ctype = Json
      /\ res[r].body = IF req[r].hb.result = ValueA
                       THEN <<"{", "\"a\":1", "}">>
                       ELSE <<"{", "}">>

\* C12: when the handler sets a status code other than 200 and returns a
\* value with the response open, the value is sent as JSON with that status
\* code; 200 is sent only when the handler set none
C12_HandlerStatusPreserved ==
  \A r \in DOMAIN req :
    (/\ ReturnsOpen(req[r].hb)
     /\ req[r].hb.result \in {Undefined, Null, ValueA}
     /\ ctx[r].invoked = 1
     /\ Answered(r)
     /\ NoTimeout(r)) =>
      /\ res[r].sentStatus = IF req[r].hb.status = 0 THEN 200
                             ELSE req[r].hb.status
      /\ res[r].ctype = Json
      /\ res[r].body = IF req[r].hb.result = ValueA
                       THEN <<"{", "\"a\":1", "}">>
                       ELSE <<"{", "}">>

\* the path of the request is neither /api nor below /api/
NotUnderApi(q) ==
  /\ BeforeQuery(q.url) # <<"/", "api">>
  /\ ~StartsWith(BeforeQuery(q.url), <<"/", "api", "/">>)
  /\ ~Malformed(UrlPathname(q.url))
  /\ Pathname(q) # <<"/", "api">>
  /\ ~StartsWith(Pathname(q), <<"/", "api", "/">>)

\* C13: for a request whose path is not under the API prefix the dev
\* middleware calls next() once and does nothing else: the response is as
\* it was, no timeout is armed, no file is looked up, no handler is loaded
C13_NonApiDelegated ==
  \A r \in DOMAIN req :
    (engine = "dev" /\ NotUnderApi(req[r])) =>
      /\ res[r] = NewResponse
      /\ ctx[r].timer = "off"
      /\ probed = {}
      /\ ctx[r].loaded = {}
      /\ ctx[r].invoked = 0
      /\ ctx[r].next = IF ctx[r].pc = "start" THEN 0 ELSE 1
      /\ ctx[r].pc \in {"start", "done"}

C15_NotContained403 ==
  \A r \in DOMAIN req :
    (/\ IsApiRequest(engine, req[r])
     /\ ~Preflight(r)
     /\ ~Inside(Candidate(req[r]), apiDir)
     /\ Answered(r)
     /\ NoTimeout(r)) =>
      /\ res[r].sentStatus = 403
      /\ res[r].body = ErrorJson(MsgForbidden)

\* C16: with CORS enabled every ended response to an API request carries
\* Access-Control-Allow-Origin (the configured origin, "*" when none is
\* configured), -Allow-Methods and -Allow-Headers, in both engines; with
\* CORS disabled none of the three is set
C16_CorsOnEveryResponse ==
  \A r \in DOMAIN req :
    (IsApiRequest(engine, req[r]) /\ res[r].writableEnded) =>
      IF options.cors = "off"
      THEN /\ res[r].cors = "none"
           /\ res[r].corsMethods = "none"
           /\ res[r].corsHeaders = "none"
      ELSE /\ res[r].cors = IF options.cors = "https://o" THEN "https://o"
                            ELSE "*"
           /\ res[r].corsMethods = "GET,POST,PUT,PATCH,DELETE,OPTIONS"
           /\ res[r].corsHeaders = "Content-Type"

\* C17: with CORS enabled an OPTIONS request to an API path is ended at
\* once with status 204 and an empty body, and nothing else is done: no
\* timeout armed, no existence check, no body read, no handler loaded
C17_PreflightEndsAtOnce ==
  \A r \in DOMAIN req :
    (/\ IsApiRequest(engine, req[r])
     /\ Preflight(r)
     /\ ctx[r].pc # "start") =>
      /\ ctx[r].pc = "done"
      /\ res[r].writableEnded
      /\ res[r].sentStatus = 204
      /\ res[r].body = <<>>
      /\ res[r].ends = 1
      /\ ctx[r].timer = "off"
      /\ probed = {}
      /\ ctx[r].total = 0
      /\ ctx[r].loaded = {}
      /\ ctx[r].invoked = 0

\* the mapping that has every key of the query string once, with the value
\* of the key's last occurrence
LastValues(entries) ==
  [k \in {entries[i].k : i \in 1..Len(entries)} |->
     entries[CHOOSE i \in 1..Len(entries) :
               /\ entries[i].k = k
               /\ \A j \in (i + 1)..Len(entries) : entries[j].k # k].v]

\* C18: the handler sees as req.query the mapping from every key of the
\* query string to the value of its last occurrence; ?name=test&id=123
\* gives {name: "test", id: "123"}
C18_QueryLastValueWins ==
  \A r \in DOMAIN req :
    ctx[r].invoked >= 1 =>
      /\ ctx[r].seen.hasQuery
      /\ ctx[r].seen.query = LastValues(SearchEntries(UrlQuery(req[r].url)))
      /\ UrlQuery(req[r].url) = QueryNameId =>
           /\ DOMAIN ctx[r].seen.query = {<<"name">>, <<"id">>}
           /\ ctx[r].seen.query[<<"name">>] = <<"test">>
           /\ ctx[r].seen.query[<<"id">>] = <<"123">>

\* a handler was given a query whose key "name" occurred with the value
\* "123" and, later, with the value "test"
C18_Witness ==
  \E r \in DOMAIN req :
    /\ ctx[r].invoked = 1
    /\ UrlQuery(req[r].url) =
         <<"name", "=", "123", "&", "name", "=", "test", "&">>
    /\ ctx[r].seen.query[<<"name">>] = <<"test">>
    /\ ctx[r].pc = "done"

\* C19: a JSON value b sent within the limit as the body of a POST, PUT or
\* PATCH to a handler returning {body: req.body} is answered 200 with a
\* body that parses to {body: b}
C19_EchoRoundTrip ==
  \A r \in DOMAIN req :
    (/\ req[r].method \in Mutating
     /\ req[r].url = UrlH
     /\ req[r].hb = EchoHandler
     /\ BodyBytes(req[r]) > 0
     /\ BodyBytes(req[r]) <= ConfiguredLimit(options)
     /\ ~JsonParse(Concat(req[r].chunks)).err
     /\ Answered(r)
     /\ NoTimeout(r)) =>
      /\ res[r].sentStatus = 200
      /\ ~JsonParse(res[r].body).err
      /\ JsonParse(res[r].body).value.json =
           <<"{", "\"body\":">>
             \o JsonParse(Concat(req[r].chunks)).value.json \o <<"}">>

\* C20: a request that resolves to a module with no default export is
\* answered 500 with a JSON error body, and nothing of the module is called
\* as a handler
C20_NoDefaultExport500 ==
  \A r \in DOMAIN req :
    (~req[r].hb.hasDefault /\ ctx[r].loaded # {}) =>
      /\ ctx[r].invoked = 0
      /\ ctx[r].pc = "done"
      /\ (Answered(r) /\ NoTimeout(r)) =>
           /\ res[r].sentStatus = 500
           /\ res[r].ctype = Json
           /\ Len(res[r].body) >= 3
           /\ res[r].body[1] = "{\"error\":\""
           /\ res[r].body[Len(res[r].body)] = "\"}"

\* a module with no default export was loaded and the request answered 500
C20_Witness ==
  \E r \in DOMAIN req :
    /\ ~req[r].hb.hasDefault
    /\ ctx[r].loaded # {}
    /\ Answered(r)
    /\ NoTimeout(r)
    /\ res[r].sentStatus = 500

\* a request the claims call an API request whatever the engine: its URL
\* begins with /api/
ApiUrl(q) == StartsWith(q.url, <<"/", "api", "/">>)

Throws(hb) == hb.hasDefault /\ hb.outcome \in {"throw", "thrownull"}

\* C21: no failure escapes the callback of an API request, whether its path
\* is malformed or its handler throws an Error or a non-Error value; a
\* failure of the handler that finds the response open is answered with a
\* JSON error of status 500
C21_NoFailureEscapes ==
  \A r \in DOMAIN req :
    ApiUrl(req[r]) =>
      /\ ~ctx[r].escaped
      /\ ~ctx[r].uncaught
      /\ (/\ ctx[r].pc = "done"
          /\ ctx[r].invoked = 1
          /\ Throws(req[r].hb)
          /\ ~req[r].hb.ends
          /\ NoTimeout(r)) =>
            /\ res[r].writableEnded
            /\ res[r].sentStatus = 500
            /\ res[r].ctype = Json

\* a request the production runtime serves from the static root
StaticRequest(q) ==
  /\ ~Malformed(UrlPathname(q.url))
  /\ ~StartsWith(Pathname(q), <<"/", "api", "/">>)

\* the path below the static root that the request names
StaticPath(q) == PathJoin(clientDir, Pathname(q))

\* the file of the static root to serve: the one named, index.html for /
\* and for a path no file answers
ServedFile(q) ==
  IF Pathname(q) # <<"/">> /\ StaticPath(q) \in Files
  THEN StaticPath(q)
  ELSE IndexHtml

\* C23: the production runtime answers a request that is not under /api/
\* and names a path of the static root with the file named, or with
\* index.html for / and for a path no file answers, status 200 and the
\* file's MIME type; without a static root it answers 404
C23_StaticServing ==
  \A r \in DOMAIN req :
    (/\ engine = "prod"
     /\ StaticRequest(req[r])
     /\ StaticPath(req[r]) = clientDir \/ Inside(StaticPath(req[r]), clientDir)
     /\ ctx[r].pc = "done"
     /\ NoTimeout(r)) =>
       /\ res[r].writableEnded
       /\ IF disk.client
          THEN /\ res[r].sentStatus = 200
               /\ res[r].ctype = Mime(ServedFile(req[r]))
               /\ res[r].body = FileContent(ServedFile(req[r]))
          ELSE res[r].sentStatus = 404

\* C24: static serving streams no file outside clientDir; a request whose
\* path resolves outside clientDir is answered 403 or with index.html
C24_StaticContained ==
  \A r \in DOMAIN req :
    (engine = "prod" /\ StaticRequest(req[r]) /\ disk.client) =>
      /\ ctx[r].pc = "stream" => Inside(ctx[r].file, clientDir)
      /\ (/\ ~Inside(StaticPath(req[r]), clientDir)
          /\ ctx[r].pc = "done"
          /\ NoTimeout(r)) =>
            \/ res[r].sentStatus = 403
            \/ res[r].body = FileContent(IndexHtml)

\* C27: no request makes fs.existsSync look at a path outside apiDir and
\* outside the static root
C27_NoProbeOutside ==
  \A p \in probed :
    \/ Inside(p, apiDir)
    \/ p = clientDir
    \/ Inside(p, clientDir)

\* the chunks of the request that the body loop has taken from the stream
ChunksRead(r) ==
  SubSeq(req[r].chunks, 1, Len(req[r].chunks) - Len(ctx[r].rest))

\* what the bytes b parse to: {} for no bytes
ParsedValue(b) ==
  IF Len(b) = 0 THEN EmptyObject ELSE JsonParse(b).value

\* the request came to the body loop: the guard let it through and the
\* file was found
BodyRead(r) == \E i \in DOMAIN ctx[r].stages : ctx[r].stages[i] = "exists"

\* C28: the body loop rejects with 413 at the first chunk that takes the
\* byte count above the configured limit and reads nothing after it;
\* otherwise, a body of exactly the limit included, what is parsed is the
\* bytes of all chunks in order
C28_NeverTruncates ==
  \A r \in DOMAIN req :
    (/\ IsApiRequest(engine, req[r])
     /\ req[r].method \in {"POST", "PUT", "PATCH"}
     /\ BodyRead(r)) =>
       LET c == ctx[r]
           L == ConfiguredLimit(options)
       IN  /\ c.total = ByteLength(Concat(ChunksRead(r)))
           /\ c.total > L =>
                /\ c.pc = "done"
                /\ ~c.hasBody
                /\ c.invoked = 0
                /\ ByteLength(Concat(c.buf)) <= L
                /\ c.total - ByteLength(ChunksRead(r)[Len(ChunksRead(r))]) <= L
                /\ NoTimeout(r) => res[r].sentStatus = 413
           /\ c.total <= L => c.buf = ChunksRead(r)
           /\ c.hasBody =>
                /\ c.rest = <<>>
                /\ c.total <= L
                /\ Concat(c.buf) = Concat(req[r].chunks)
                /\ c.body = ParsedValue(Concat(req[r].chunks))

\* C29: for a method other than POST, PUT and PATCH the request stream is
\* not read and req.body is absent when the handler runs; a POST, PUT or
\* PATCH of no bytes gives the handler req.body = {}
C29_BodyOnlyForMutating ==
  \A r \in DOMAIN req :
    /\ req[r].method \notin {"POST", "PUT", "PATCH"} =>
         /\ ctx[r].pc # "body"
         /\ ctx[r].total = 0
         /\ ctx[r].buf = <<>>
         /\ ctx[r].rest \in {<<>>, req[r].chunks}
         /\ ~ctx[r].hasBody
         /\ ~ctx[r].seen.hasBody
    /\ (/\ req[r].method \in {"POST", "PUT", "PATCH"}
        /\ BodyBytes(req[r]) = 0
        /\ ctx[r].invoked = 1) =>
          /\ ctx[r].seen.hasBody
          /\ ctx[r].seen.body = EmptyObject

\* a GET that carries a body has reached its handler
C29_Witness ==
  \E r \in DOMAIN req :
    /\ req[r].method = "GET"
    /\ BodyBytes(req[r]) > 0
    /\ ctx[r].rest = req[r].chunks
    /\ ctx[r].invoked = 1
    /\ ~ctx[r].seen.hasBody

\* the stages in the order the claim gives them
StageOrder ==
  <<"cors", "timeout", "resolve", "guard", "exists", "body", "invoke",
    "finalize">>

Rank(s) == CHOOSE i \in DOMAIN StageOrder : StageOrder[i] = s

Passed(r, s) == \E i \in DOMAIN ctx[r].stages : ctx[r].stages[i] = s

\* C30: the stages a request has passed are in the fixed order, each at
\* most once; the timeout is armed before resolution; the handler is
\* invoked at most once, after the guard accepted the path, the file was
\* found and, for POST, PUT and PATCH, the body was decoded
C30_StagesInOrder ==
  \A r \in DOMAIN req :
    LET st == ctx[r].stages
    IN  /\ \A i, j \in DOMAIN st : i < j => Rank(st[i]) < Rank(st[j])
        /\ Passed(r, "resolve") => Passed(r, "timeout")
        /\ Passed(r, "timeout") <=> ctx[r].timer # "off"
        /\ ctx[r].invoked <= 1
        /\ ctx[r].invoked = 1 <=> Passed(r, "invoke")
        /\ Passed(r, "invoke") =>
             /\ Passed(r, "guard")
             /\ Passed(r, "exists")
             /\ Contained(ctx[r].file, apiDir)
             /\ ctx[r].file \in Files
             /\ req[r].method \in {"POST", "PUT", "PATCH"} =>
                  (Passed(r, "body") /\ ctx[r].hasBody)
        /\ Passed(r, "body") => req[r].method \in {"POST", "PUT", "PATCH"}
        /\ Passed(r, "finalize") => Passed(r, "invoke")

\* a POST has passed every stage
C30_Witness ==
  \E r \in DOMAIN req :
    /\ req[r].method = "POST"
    /\ ctx[r].stages = <<"timeout", "resolve", "guard", "exists", "body",
                         "invoke", "finalize">>
    /\ ctx[r].pc = "done"

\* C22: in development mode the code a request runs is the code that is
\* on disk when the request imports the handler module
C22_FreshModulePerRequest ==
  \A r \in DOMAIN req :
    (engine = "dev" /\ ctx[r].ran # -1) => ctx[r].ran = ctx[r].onDisk

\* closeBundle has set the environment and called buildBackend
BuildStarted == build.pc \in {"glob", "bundle", "done"}

\* the port and the timeout the plugin is configured with
ConfiguredPort ==
  IF options.port # 0 THEN ToStr(options.port)
  ELSE IF build.envBefore.PORT \notin {Unset, ""} THEN build.envBefore.PORT
  ELSE "4173"

ConfiguredTimeout ==
  IF options.timeout # 0 THEN ToStr(options.timeout) ELSE "30000"

\* VITE_NODE_API_PORT and VITE_NODE_API_TIMEOUT hold the configured port
\* and timeout from the moment buildBackend starts, and PORT is as it was
PortAndTimeoutSet ==
  BuildStarted =>
    /\ build.envAtBuild.VITE_NODE_API_PORT = ConfiguredPort
    /\ build.envAtBuild.VITE_NODE_API_TIMEOUT = ConfiguredTimeout
    /\ env.VITE_NODE_API_PORT = ConfiguredPort
    /\ env.VITE_NODE_API_TIMEOUT = ConfiguredTimeout
    /\ env.PORT = build.envBefore.PORT

\* C25 as stated: closeBundle sets the two variables before the build, sets
\* NODE_ENV to "production" only when it is unset and leaves a NODE_ENV
\* that is set unchanged
C25_EnvOnlyWhenUnset ==
  /\ PortAndTimeoutSet
  /\ BuildStarted =>
       env.NODE_ENV = IF build.envBefore.NODE_ENV = Unset THEN "production"
                      ELSE build.envBefore.NODE_ENV

\* C25, amended: closeBundle sets the two variables before the build, sets
\* NODE_ENV to "production" when it is unset or the empty string and leaves
\* a non-empty NODE_ENV unchanged
C25_EnvWhenUnsetOrEmpty ==
  /\ PortAndTimeoutSet
  /\ BuildStarted =>
       /\ env.NODE_ENV = IF build.envBefore.NODE_ENV \in {Unset, ""}
                         THEN "production"
                         ELSE build.envBefore.NODE_ENV
       /\ build.envAtBuild.NODE_ENV = env.NODE_ENV

\* closeBundle ran with port 5000 configured and NODE_ENV empty
C25_Witness ==
  /\ BuildStarted
  /\ options.port = 5000
  /\ build.envBefore.NODE_ENV = ""
  /\ env.NODE_ENV = "production"
  /\ env.VITE_NODE_API_PORT = "5000"

Logged(m) == \E i \in DOMAIN build.log : build.log[i] = m

\* C26: a failure of the bundler is logged and rejects buildBackend and
\* closeBundle; with no handler file buildBackend warns and returns, the
\* bundler is not called and the runtime is not copied
C26_BuildFailurePropagates ==
  build.pc = "done" =>
    /\ (build.entries # {} /\ build.bundlerFails) =>
         /\ build.outcome = "rejected"
         /\ build.hook = "rejected"
         /\ Logged(LogError)
         /\ ~build.copied
    /\ build.entries = {} =>
         /\ build.outcome = "resolved"
         /\ build.log = <<LogNoFiles>>
         /\ build.bundled = 0
         /\ ~build.copied
    /\ build.outcome = "rejected" => (build.entries # {} /\ build.bundlerFails)

\* the bundler failed and the build has ended
C26_Witness ==
  /\ build.pc = "done"
  /\ build.entries # {}
  /\ build.bundlerFails
  /\ build.outcome = "rejected"

\* C31: when a handler file exists at the literal path of the request, the
\* file is the one loaded, no route parameter is bound and the request
\* does not consult the route table
C31_DirectMatchFirst ==
  \A r \in DOMAIN req :
    (/\ IsApiRequest(engine, req[r])
     /\ Candidate(req[r]) \in Files) =>
       /\ ctx[r].pc # "glob"
       /\ ~routeCache.set
       /\ ctx[r].params = NoParams
       /\ ctx[r].loaded \subseteq {Candidate(req[r])}
       /\ ctx[r].invoked = 1 =>
            /\ ctx[r].loaded = {Candidate(req[r])}
            /\ ctx[r].seen.params = NoParams

\* the request /api/users/[id], written with the brackets, has been served
\* by the file users/[id].js
C31_Witness ==
  \E r \in DOMAIN req :
    /\ engine = "prod"
    /\ req[r].url = UrlUserLiteral
    /\ ctx[r].loaded = {UserIdFile}
    /\ ctx[r].invoked = 1
    /\ ctx[r].seen.params = NoParams

\* the segments of the request path below /api and of a handler file's
\* relative path without its extension
PathSegments(apiPath) ==
  IF StartsWith(apiPath, <<"/">>) THEN Split(Tail(apiPath), "/")
  ELSE Split(apiPath, "/")

FileSegments(f) == Split(StripJs(Relative(f)), "/")

Bracketed(seg) == Len(seg) >= 3 /\ seg[1] = "[" /\ seg[Len(seg)] = "]"

\* the acceptance the claims describe: as many segments, a bracketed
\* segment for any one non-empty segment, every other segment equal
SegmentsMatch(f, apiPath) ==
  LET fs == FileSegments(f)
      ps == PathSegments(apiPath)
  IN  /\ Len(fs) = Len(ps)
      /\ \A i \in 1..Len(fs) :
           IF Bracketed(fs[i]) THEN Len(ps[i]) > 0 ELSE fs[i] = ps[i]

\* the request has been matched against the route table
Matched(r) ==
  /\ engine = "prod"
  /\ routeCache.set
  /\ BodyRead(r) \/ ctx[r].pc = "done"
  /\ StartsWith(ctx[r].apiPath, <<"/">>)
  /\ Candidate(req[r]) \notin Files

\* C32: an entry of the route table accepts the path of a request exactly
\* when the path has the segments of the entry's file, a bracketed segment
\* standing for any one segment
C32_MatcherBySegments ==
  \A r \in DOMAIN req :
    Matched(r) =>
      \A i \in 1..Len(routeCache.routes) :
        RegexExec(routeCache.routes[i].regex, ctx[r].apiPath).ok
          <=> SegmentsMatch(routeCache.routes[i].file, ctx[r].apiPath)

\* the entries of the table that accept the path, by segments
Accepting(r) ==
  {i \in 1..Len(routeCache.routes) :
     SegmentsMatch(routeCache.routes[i].file, ctx[r].apiPath)}

FirstAccepting(r) == CHOOSE i \in Accepting(r) : \A j \in Accepting(r) : i <= j

\* the parameters the entry i binds for the path of request r
ParamsOf(r, i) ==
  LET fs == FileSegments(routeCache.routes[i].file)
      ps == PathSegments(ctx[r].apiPath)
  IN  [n \in {SubSeq(fs[k], 2, Len(fs[k]) - 1) :
                 k \in {m \in 1..Len(fs) : Bracketed(fs[m])}} |->
         ps[CHOOSE k \in 1..Len(fs) :
              Bracketed(fs[k]) /\ SubSeq(fs[k], 2, Len(fs[k]) - 1) = n]]

\* C33: of the entries that accept the path of a request the first in the
\* order of the table is the one resolved to, with its parameters alone
C33_FirstEntryWins ==
  \A r \in DOMAIN req :
    (Matched(r) /\ Accepting(r) # {}) =>
      /\ ctx[r].file = routeCache.routes[FirstAccepting(r)].file
      /\ ctx[r].params = ParamsOf(r, FirstAccepting(r))

\* what a client observes of a response
Observed(rs) ==
  [ended  |-> rs.writableEnded,
   status |-> IF rs.writableEnded THEN rs.sentStatus ELSE 0,
   body   |-> IF rs.writableEnded THEN rs.body ELSE <<>>]

OtherEngine(e) == IF e = "dev" THEN "prod" ELSE "dev"

\* the path names no dynamic route
NonDynamic(q) ==
  \A i \in 1..Len(GlobApi) :
    \/ BracketNames(Relative(GlobApi[i])) = <<>>
    \/ ~SegmentsMatch(GlobApi[i], StripApi(Pathname(q)))

\* C38: with CORS disabled, the response an engine gives to an API request
\* for a non-dynamic route has the status and the body that the other
\* engine gives to the same request
C38_EnginesEquivalent ==
  \A r \in DOMAIN req :
    (/\ options.cors = "off"
     /\ ApiUrl(req[r])
     /\ ~Malformed(UrlPathname(req[r].url))
     /\ StartsWith(Pathname(req[r]), <<"/", "api", "/">>)
     /\ NonDynamic(req[r])
     /\ ctx[r].pc = "done"
     /\ NoTimeout(r)) =>
       Observed(res[r]) = Observed(Run(OtherEngine(engine), options, req[r]))

\* run alone, a request that came to its end without a timeout has the
\* response that Run computes for it
RunAgrees ==
  \A r \in DOMAIN req :
    (ctx[r].pc = "done" /\ NoTimeout(r)) =>
      res[r] = Run(engine, options, req[r])

\* the request went to the route table: entry.mjs:106 found no file
TableUsed(r) ==
  /\ engine = "prod"
  /\ StartsWith(ctx[r].apiPath, <<"/">>)
  /\ Candidate(req[r]) \notin Files
  /\ BodyRead(r) \/ ctx[r].pc = "done"

\* the cache is empty or holds the table of all handler files, a request
\* that went to the table matched against all of it, and the table is
\* built only for a request that missed
TableComplete ==
  /\ routeCache.routes = IF routeCache.set THEN BuildRoutes(GlobApi) ELSE <<>>
  /\ routeCache.set => \E r \in DOMAIN req : TableUsed(r)
  /\ \A r \in DOMAIN req :
       ctx[r].table = IF TableUsed(r) THEN BuildRoutes(GlobApi) ELSE <<>>

\* C34: the route table is built on the first direct-match miss; once set
\* it is never reset nor changed, every table assigned by concurrent
\* builders is the same, and every request matches against a whole table
C34_RouteCacheStable ==
  /\ []TableComplete
  /\ [][routeCache.set => routeCache' = routeCache]_vars

\* a request has assigned the table while another one, which found the
\* cache empty, is still waiting for its own listing
C34_Witness ==
  \E r, t \in DOMAIN req :
    /\ r # t
    /\ routeCache.set
    /\ ctx[r].table = BuildRoutes(GlobApi)
    /\ ctx[t].pc = "glob"

\* what the handler of request r sees comes from request r
OwnInputs(r) ==
  ctx[r].invoked = 1 =>
    /\ ctx[r].seen.query = ParseQuery(req[r].url)
    /\ ctx[r].seen.params = NoParams
    /\ ctx[r].seen.hasBody <=> req[r].method \in Mutating
    /\ ctx[r].seen.hasBody =>
         ctx[r].seen.body = ParsedValue(Concat(req[r].chunks))

\* C36: the body, query and parameters a handler sees are those of its
\* own request, the response of a request that came to its end is the one
\* the request gets when served alone, and a step of one request changes
\* neither the context nor the response of another
C36_ContextsIsolated ==
  /\ [](\A r \in DOMAIN req :
          /\ OwnInputs(r)
          /\ (ctx[r].pc = "done" /\ NoTimeout(r)) =>
               res[r] = Run(engine, options, req[r]))
  /\ [][\A r, t \in DOMAIN req :
          (r # t /\ (ctx'[r] # ctx[r] \/ res'[r] # res[r])) =>
            (ctx'[t] = ctx[t] /\ res'[t] = res[t])]_vars

\* two different requests were served interleaved, each to its end
C36_Witness ==
  \E r, t \in DOMAIN req :
    /\ req[r].method = "POST"
    /\ req[t].method = "GET"
    /\ ParseQuery(req[t].url) # NoQuery
    /\ ctx[r].pc = "done" /\ ctx[r].invoked = 1
    /\ ctx[t].pc = "done" /\ ctx[t].invoked = 1
    /\ ctx[r].seen # ctx[t].seen

\* where the lifecycle is when the timer fires before the handler is called
BeforeHandler == {"glob", "body", "import"}

\* the timer has fired and the server has a step of the lifecycle to take
WorkLeft(r) ==
  /\ ctx[r].timer = "fired"
  /\ ctx[r].pc \in {"glob", "import", "handler"}

\* the lifecycle is over, or waits for a handler that never settles
WorkDone(r) ==
  \/ ctx[r].pc = "done"
  \/ ctx[r].pc = "handler" /\ req[r].hb.outcome \in {"hang", "stream"}

\* C37: the timeout leaves the lifecycle where it is and the lifecycle goes
\* on: a pending handler still settles, and a request whose timer fired before
\* the handler was called, and which reaches the handler when no timer
\* fires, has its module loaded and its handler called once all the same;
\* the finalizer of a handler that returns then writes nothing
C37_TimeoutPreemptsOnlyResponse ==
  /\ [](\A r \in DOMAIN req :
          (/\ ctx[r].timer = "fired"
           /\ ctx[r].firedAt \in BeforeHandler
           /\ ctx[r].pc \in {"handler", "done"}
           /\ RunToHandler(engine, options, req[r]).ctx.pc = "handler") =>
            (ctx[r].invoked = 1 /\ ctx[r].file \in ctx[r].loaded))
  /\ (\E r \in DOMAIN req : WorkLeft(r)) ~> (\A r \in DOMAIN req : WorkDone(r))
  /\ [][\A r \in DOMAIN req :
          /\ TimerFires(r) =>
               ctx'[r] = [ctx[r] EXCEPT !.timer = "fired",
                                        !.firedAt = ctx[r].pc,
                                        !.uncaught = ctx'[r].uncaught]
          /\ (/\ TimeoutSent(r)
              /\ ctx[r].pc = "handler"
              /\ ctx'[r].pc = "done"
              /\ req[r].hb.outcome = "return") => res'[r] = res[r]]_vars

\* the 408 was sent while the body was being read, and the handler was
\* loaded and called afterwards and came to its end
C37_Witness ==
  \E r \in DOMAIN req :
    /\ ctx[r].firedAt = "body"
    /\ TimeoutSent(r)
    /\ res[r].sentStatus = 408
    /\ ctx[r].invoked = 1
    /\ ctx[r].pc = "done"

\* nothing is left to happen to the response of request r: the server has
\* no step ready for it and its timer is not pending
Quiet(r) == ctx[r].pc # "start" /\ ~ServerReady(r) /\ ~TimerReady(r)

\* C35: every API request reaches an ended response. With the server's
\* steps and the timer scheduled, a response that is never ended is one
\* that has not ended when neither a step nor the timer is left, so the
\* claim is that the response of an API request has ended whenever the
\* request is quiet
C35_EventuallyEnded ==
  \A r \in DOMAIN req :
    (IsApiRequest(engine, req[r]) /\ Quiet(r)) => res[r].writableEnded

\* process.exit(0) has been called
ExitedWith0 == server.exited /\ server.code = 0

\* C39: a signal stops the listener, so that no connection is accepted
\* after it, and the process exits with code 0 only after the 'close'
\* callback has run, when no connection is open: every request that was
\* unanswered when the signal came has had its response ended
C39_GracefulShutdown ==
  /\ [](ExitedWith0 =>
          /\ server.closed
          /\ server.signals # <<>>
          /\ \A r \in DOMAIN req : server.conn[r] # "open"
          /\ \A r \in server.atSignal : res[r].writableEnded)
  /\ [][/\ server'.signals # server.signals => ~server'.listening
        /\ server.signals # <<>> =>
             \A r \in DOMAIN req :
               server.conn[r] = "none" => server'.conn[r] = "none"]_vars

\* the signal came while a handler had been called and had not answered;
\* the process exited after the answer, and a client that came after the
\* signal was not accepted
C39_Witness ==
  /\ ExitedWith0
  /\ \E r \in server.atSignal : ctx[r].invoked = 1 /\ res[r].sentStatus = 200
  /\ \E t \in DOMAIN req : server.conn[t] = "none"

====
